---- MODULE Spec2Model ----
(***************************************************************************)
(* Model of the VideoChat signaling relay (backend/index.js) and of the    *)
(* client-side peer session manager (frontend/src/providers/Peer.tsx).     *)
(*                                                                         *)
(* The relay part models the three registry maps, socket.io's room        *)
(* membership and, for every handler, the ordered list of effects the     *)
(* handler performed (variable ops).                                      *)
(***************************************************************************)
EXTENDS Integers, Sequences, FiniteSets, TLC

\* ------------------------------------------------------------------------
\* Bounds and value sets
\* ------------------------------------------------------------------------
MaxJoins == 2
MaxPeers == 2
MaxCands == 2
MaxCalls == 2
MaxAnswerCalls == 3
MaxFailures == 2
MaxTrackEvents == 1
MaxSamples == 2
MaxTicks == 1
MaxOverflow == 2
MaxConnections == 2

\* Limits of the telemetry store (part_000:114, 162, 257), in samples and
\* milliseconds.
Cap == 1000
RecencyWindow == 30000
StalenessWindow == 300000

Sockets == {"s1", "s2", "s3"}
Emails == {"a", "b", ""}
RoomIds == {"r1", "r2"}
Payloads == {"p1"}
Flags == {"true"}
RemoteIds == {"B"}
LocalTracks == {"audio", "video"}

Undefined == "undefined"

\* A guard that lets every value through.
TruthyAlways(x) == TRUE

\* JavaScript truthiness of a string-or-undefined value (index.js:74, 93).
Truthy(x) == x \notin {Undefined, ""}

\* ------------------------------------------------------------------------
\* JavaScript Map helpers
\* ------------------------------------------------------------------------
EmptyMap == [x \in {} |-> Undefined]

MapGet(m, k) == IF k \in DOMAIN m THEN m[k] ELSE Undefined

MapSet(m, k, v) == [x \in (DOMAIN m) \cup {k} |-> IF x = k THEN v ELSE m[x]]

MapDelete(m, k) == [x \in (DOMAIN m) \ {k} |-> m[x]]

VARIABLES
    status,                 \* per connection: "fresh", "connected", "closed"
    emailToSocketMapping,   \* user identity -> connection id
    socketToEmailMapping,   \* connection id -> user identity
    socketToRoomMapping,    \* connection id -> room id
    adapterRooms,           \* socket.io room membership of each connection
    ops,                    \* effects of the last handler, in program order
    lastEvent,              \* the message the last handler processed
    joinCount,              \* join-room messages processed per connection
    cleanupRuns             \* notify-and-cleanup executions per leave path

relayVars == <<status, emailToSocketMapping, socketToEmailMapping,
               socketToRoomMapping, adapterRooms, ops, lastEvent,
               joinCount, cleanupRuns>>

VARIABLES
    peers,                  \* every RTCPeerConnection object created so far
    peerConnections,        \* React state: remote identity -> session object
    remoteStreams,          \* React state: remote identity -> media stream
    pendingIceCandidates,   \* React state: remote identity -> queued candidates
    updateQueue,            \* state updaters React has not processed yet
    tasks,                  \* asynchronous calls suspended at an await
    nextCand,               \* number of the next arriving candidate
    malformed,              \* arrived candidates the browser rejects
    buffered,               \* candidates placed in the pending queue, per identity
    calls,                  \* API calls made so far
    lastCall                \* the step that produced the current state

peerVars == <<peers, peerConnections, remoteStreams, pendingIceCandidates,
              updateQueue, tasks, nextCand, malformed, buffered, calls, lastCall>>

VARIABLES
    performanceMetrics,     \* room id -> samples of the room, oldest first
    roomMetrics,            \* room id -> last aggregate computed for the room
    now,                    \* Date.now() of the relay, in milliseconds
    inserted,               \* samples accepted so far
    ticks                   \* clock advances so far

metricVars == <<performanceMetrics, roomMetrics, now, inserted, ticks>>

VARIABLES
    connectionStats,        \* the statistics of the last collection, one per connection
    videoQuality,           \* metrics.videoQuality of the performance monitor
    audioQuality            \* metrics.audioQuality of the performance monitor

monitorVars == <<connectionStats, videoQuality, audioQuality>>

VARIABLES
    page,                   \* per client: the page it shows ("home", "mounting", "room")
    wire,                   \* per client: relay messages on their way to it, in order
    session                 \* per client: its session for the other participant

callVars == <<page, wire, session>>

vars == <<relayVars, peerVars, metricVars, monitorVars, callVars>>

\* ------------------------------------------------------------------------
\* socket.io primitives
\* ------------------------------------------------------------------------
\* A connected socket is a member of the room named by its own id and of
\* every room it joined.
InRoom(t, room) ==
    /\ status[t] = "connected"
    /\ (room = t \/ room \in adapterRooms[t])

\* A broadcast that falls back to every other connection when the room is
\* undefined (an operator with no room selected).
BroadcastToAllIfUndefined(s, room) ==
    {t \in Sockets \ {s} : status[t] = "connected" /\ (room = Undefined \/ InRoom(t, room))}

\* socket.to(room) / socket.broadcast.to(room): every member of the room
\* except the sending socket.  An undefined room has no members.
BroadcastTo(s, room) == {t \in Sockets \ {s} : InRoom(t, room)}

EmitOp(ev, to, from, body) ==
    [op |-> "emit", ev |-> ev, to |-> to, data |-> [from |-> from, body |-> body]]

SetOp(map, key) ==
    [op |-> "set", ev |-> map, to |-> {}, data |-> [from |-> key, body |-> ""]]

DeleteOp(map, key) ==
    [op |-> "delete", ev |-> map, to |-> {}, data |-> [from |-> key, body |-> ""]]

Event(type, s, target, body) ==
    [type |-> type, socket |-> s, target |-> target, body |-> body]

NoRuns == [explicit |-> 0, transport |-> 0]

RECURSIVE SumOver(_, _)
SumOver(f, S) ==
    IF S = {} THEN 0
    ELSE LET x == CHOOSE y \in S : TRUE IN f[x] + SumOver(f, S \ {x})

\* join-room messages processed so far, over all connections
TotalJoins == SumOver(joinCount, Sockets)

RelayInit ==
    /\ status = [s \in Sockets |-> "fresh"]
    /\ emailToSocketMapping = EmptyMap
    /\ socketToEmailMapping = EmptyMap
    /\ socketToRoomMapping = EmptyMap
    /\ adapterRooms = [s \in Sockets |-> {}]
    /\ ops = <<>>
    /\ lastEvent = Event("none", Undefined, Undefined, "")
    /\ joinCount = [s \in Sockets |-> 0]
    /\ cleanupRuns = [s \in Sockets |-> NoRuns]

\* io.on('connection', ...)
Connect(s) ==
    /\ status[s] = "fresh"
    /\ status' = [status EXCEPT ![s] = "connected"]
    /\ ops' = <<>>
    /\ lastEvent' = Event("connection", s, Undefined, "")
    /\ UNCHANGED <<emailToSocketMapping, socketToEmailMapping,
                   socketToRoomMapping, adapterRooms, joinCount, cleanupRuns>>
    /\ UNCHANGED <<peerVars, metricVars, monitorVars, callVars>>

\* socket.on("join-room"): what the handler does to the relay
OnJoinRoom(s, roomId, emailId) ==
    /\ status[s] = "connected"
    /\ TotalJoins < MaxJoins
    /\ emailToSocketMapping' = MapSet(emailToSocketMapping, emailId, s)
    /\ socketToEmailMapping' = MapSet(socketToEmailMapping, s, emailId)
    /\ socketToRoomMapping' = MapSet(socketToRoomMapping, s, roomId)
    /\ adapterRooms' = [adapterRooms EXCEPT ![s] = @ \cup {roomId}]
    /\ ops' = << SetOp("emailToSocketMapping", emailId),
                 SetOp("socketToEmailMapping", s),
                 SetOp("socketToRoomMapping", s),
                 EmitOp("joined-room", {s}, Undefined, roomId),
                 EmitOp("user-joined", BroadcastTo(s, roomId), emailId, "") >>
    /\ lastEvent' = Event("join-room", s, emailId, roomId)
    /\ joinCount' = [joinCount EXCEPT ![s] = @ + 1]
    /\ UNCHANGED <<status, cleanupRuns>>

\* socket.on("join-room")
JoinRoom(s, roomId, emailId) ==
    /\ OnJoinRoom(s, roomId, emailId)
    /\ UNCHANGED <<peerVars, metricVars, monitorVars, callVars>>

\* The three directed forwards share one shape: resolve the sender's
\* identity and the target's connection, then socket.to(socketId).emit(...).
OnForward(s, inEv, outEv, emailId, body) ==
    LET fromEmail == MapGet(socketToEmailMapping, s)
        socketId == MapGet(emailToSocketMapping, emailId)
    IN  /\ status[s] = "connected"
        /\ ops' = << EmitOp(outEv, BroadcastTo(s, socketId), fromEmail, body) >>
        /\ lastEvent' = Event(inEv, s, emailId, body)
        /\ UNCHANGED <<status, emailToSocketMapping, socketToEmailMapping,
                       socketToRoomMapping, adapterRooms, joinCount, cleanupRuns>>

Forward(s, inEv, outEv, emailId, body) ==
    /\ OnForward(s, inEv, outEv, emailId, body)
    /\ UNCHANGED <<peerVars, metricVars, monitorVars, callVars>>

\* call-user relayed with socket.broadcast.emit, without selecting the target.
CallUserBroadcast(s, emailId, offer) ==
    /\ status[s] = "connected"
    /\ ops' = << EmitOp("incomming-call",
                        {t \in Sockets \ {s} : status[t] = "connected"},
                        MapGet(socketToEmailMapping, s), offer) >>
    /\ lastEvent' = Event("call-user", s, emailId, offer)
    /\ UNCHANGED <<status, emailToSocketMapping, socketToEmailMapping,
                   socketToRoomMapping, adapterRooms, joinCount, cleanupRuns>>
    /\ UNCHANGED <<peerVars, metricVars, monitorVars, callVars>>

\* socket.on("call-user")
CallUser(s, emailId, offer) == Forward(s, "call-user", "incomming-call", emailId, offer)

\* socket.on('call-accepted')
CallAccepted(s, emailId, ans) == Forward(s, "call-accepted", "call-accepted", emailId, ans)

\* socket.on('ice-candidate')
IceCandidate(s, emailId, candidate) ==
    Forward(s, "ice-candidate", "ice-candidate", emailId, candidate)

\* socket.on('mute-state-changed') and socket.on('video-state-changed')
StateChanged(s, ev, flag) ==
    LET fromEmail == MapGet(socketToEmailMapping, s)
        roomId == MapGet(socketToRoomMapping, s)
    IN  /\ status[s] = "connected"
        /\ ops' = << EmitOp(ev, BroadcastTo(s, roomId), fromEmail, flag) >>
        /\ lastEvent' = Event(ev, s, Undefined, flag)
        /\ UNCHANGED <<status, emailToSocketMapping, socketToEmailMapping,
                       socketToRoomMapping, adapterRooms, joinCount, cleanupRuns>>
        /\ UNCHANGED <<peerVars, metricVars, monitorVars, callVars>>

MuteStateChanged(s, flag) == StateChanged(s, "mute-state-changed", flag)

VideoStateChanged(s, flag) == StateChanged(s, "video-state-changed", flag)

\* The body of "if (emailId && roomId) { ... }" with the removals placed
\* before the broadcast.
CleanupOpsRemoveFirst(s, emailId, roomId) ==
    << DeleteOp("emailToSocketMapping", emailId),
       DeleteOp("socketToEmailMapping", s),
       DeleteOp("socketToRoomMapping", s),
       EmitOp("user-left", BroadcastTo(s, roomId), emailId, "") >>

\* The body of "if (emailId && roomId) { ... }" shared by both leave paths:
\* its effects in program order.
CleanupOps(s, emailId, roomId) ==
    << EmitOp("user-left", BroadcastTo(s, roomId), emailId, ""),
       DeleteOp("emailToSocketMapping", emailId),
       DeleteOp("socketToEmailMapping", s),
       DeleteOp("socketToRoomMapping", s) >>

\* socket.on('user-disconnect'): explicit leave
UserDisconnect(s) ==
    LET emailId == MapGet(socketToEmailMapping, s)
        roomId == MapGet(socketToRoomMapping, s)
    IN  /\ status[s] = "connected"
        /\ IF Truthy(emailId) /\ Truthy(roomId)
           THEN /\ emailToSocketMapping' = MapDelete(emailToSocketMapping, emailId)
                /\ socketToEmailMapping' = MapDelete(socketToEmailMapping, s)
                /\ socketToRoomMapping' = MapDelete(socketToRoomMapping, s)
                /\ ops' = CleanupOps(s, emailId, roomId)
                            \o << EmitOp("disconnect-acknowledged", {s}, Undefined, "") >>
                /\ cleanupRuns' = [cleanupRuns EXCEPT ![s].explicit = @ + 1]
           ELSE /\ ops' = << EmitOp("disconnect-acknowledged", {s}, Undefined, "") >>
                /\ UNCHANGED <<emailToSocketMapping, socketToEmailMapping,
                               socketToRoomMapping, cleanupRuns>>
        /\ lastEvent' = Event("user-disconnect", s, Undefined, "")
        /\ UNCHANGED <<status, adapterRooms, joinCount>>
        /\ UNCHANGED <<peerVars, metricVars, monitorVars, callVars>>

\* socket.on('disconnect'): transport disconnect.  socket.io has already
\* removed the socket from every room when the handler runs.
Disconnect(s) ==
    LET emailId == MapGet(socketToEmailMapping, s)
        roomId == MapGet(socketToRoomMapping, s)
        rooms == [adapterRooms EXCEPT ![s] = {}]
    IN  /\ status[s] = "connected"
        /\ status' = [status EXCEPT ![s] = "closed"]
        /\ adapterRooms' = rooms
        /\ IF Truthy(emailId) /\ Truthy(roomId)
           THEN /\ emailToSocketMapping' = MapDelete(emailToSocketMapping, emailId)
                /\ socketToEmailMapping' = MapDelete(socketToEmailMapping, s)
                /\ socketToRoomMapping' = MapDelete(socketToRoomMapping, s)
                /\ ops' = CleanupOps(s, emailId, roomId)
                /\ cleanupRuns' = [cleanupRuns EXCEPT ![s].transport = @ + 1]
           ELSE /\ ops' = <<>>
                /\ UNCHANGED <<emailToSocketMapping, socketToEmailMapping,
                               socketToRoomMapping, cleanupRuns>>
        /\ lastEvent' = Event("disconnect", s, Undefined, "")
        /\ UNCHANGED joinCount
        /\ UNCHANGED <<peerVars, metricVars, monitorVars, callVars>>

RelayNext ==
    \/ \E s \in Sockets : Connect(s)
    \/ \E s \in Sockets, r \in RoomIds, e \in Emails : JoinRoom(s, r, e)
    \/ \E s \in Sockets, e \in Emails, p \in Payloads : CallUser(s, e, p)
    \/ \E s \in Sockets, e \in Emails, p \in Payloads : CallAccepted(s, e, p)
    \/ \E s \in Sockets, e \in Emails, p \in Payloads : IceCandidate(s, e, p)
    \/ \E s \in Sockets, f \in Flags : MuteStateChanged(s, f)
    \/ \E s \in Sockets, f \in Flags : VideoStateChanged(s, f)
    \/ \E s \in Sockets : UserDisconnect(s)
    \/ \E s \in Sockets : Disconnect(s)

\* ------------------------------------------------------------------------
\* Relay: observations on the last handler
\* ------------------------------------------------------------------------
ForwardEvents == {"call-user", "call-accepted", "ice-candidate"}

LeaveEvents == {"user-disconnect", "disconnect"}

OpIndexes == 1..Len(ops)

EmitIndexes(ev) == {i \in OpIndexes : ops[i].op = "emit" /\ ops[i].ev = ev}

DeleteIndexes == {i \in OpIndexes : ops[i].op = "delete"}

\* Emits of the last handler that reached at least one connection.
Deliveries == {i \in OpIndexes : ops[i].op = "emit" /\ ops[i].to # {}}

\* A connection -> user or connection -> room entry exists for c.
ReferencedAsKey(c) ==
    c \in DOMAIN socketToEmailMapping \/ c \in DOMAIN socketToRoomMapping

\* Some registry map has connection c as a key or as a value.
ReferencedInRegistry(c) ==
    \/ c \in DOMAIN socketToEmailMapping
    \/ c \in DOMAIN socketToRoomMapping
    \/ \E e \in DOMAIN emailToSocketMapping : emailToSocketMapping[e] = c

registry == <<emailToSocketMapping, socketToEmailMapping, socketToRoomMapping>>

\* C1: once a connection has processed an explicit leave or a transport
\* disconnect, no registry map has an entry whose key or value is that
\* connection's id.
C1_NoEntryAfterLeave ==
    lastEvent.type \in LeaveEvents => ~ReferencedInRegistry(lastEvent.socket)

\* C3: a call-user, call-accepted or ice-candidate addressed to an identity
\* with no registry entry changes no registry state and is delivered to no
\* connection (the handler has no failing path).
C3_UnknownTargetIsNoOp ==
    [][ (lastEvent'.type \in ForwardEvents
          /\ lastEvent'.target \notin DOMAIN emailToSocketMapping)
        => (/\ registry' = registry
            /\ adapterRooms' = adapterRooms
            /\ \A i \in 1..Len(ops') : ops'[i].op = "emit" /\ ops'[i].to = {}) ]_vars

\* C3 witness: a forward to an unregistered identity was processed while
\* another connection was joined and could have received it.
C3_Witness ==
    /\ lastEvent.type \in ForwardEvents
    /\ lastEvent.target \notin DOMAIN emailToSocketMapping
    /\ \E t \in Sockets \ {lastEvent.socket} :
          status[t] = "connected" /\ t \in DOMAIN socketToEmailMapping

\* C5: when join-room registers an identity that was mapped to a different,
\* previous connection, the previous connection's connection->user and
\* connection->room entries do not remain after the join.
C5_RejoinDropsPreviousConnection ==
    [][ (lastEvent'.type = "join-room" /\ joinCount' # joinCount)
        => LET prev == MapGet(emailToSocketMapping, lastEvent'.target)
           IN  (prev # Undefined /\ prev # lastEvent'.socket)
                  => (/\ prev \notin DOMAIN socketToEmailMapping'
                      /\ prev \notin DOMAIN socketToRoomMapping') ]_vars

\* C6 (as stated): over a connection's lifetime the notify-and-cleanup step
\* never executes in both leave paths.
C6_NeverBothPaths ==
    \A s \in Sockets : ~(cleanupRuns[s].explicit > 0 /\ cleanupRuns[s].transport > 0)

\* C6 (amended): each leave path executes notify-and-cleanup only when the
\* connection has registry entries, and removes them, so the two paths never
\* clean up the same join: the cleanups of a connection never outnumber its
\* joins, and the transport path runs at most once.
C6_OneCleanupPerJoin ==
    /\ [](\A s \in Sockets :
            /\ cleanupRuns[s].explicit + cleanupRuns[s].transport <= joinCount[s]
            /\ cleanupRuns[s].transport <= 1)
    /\ [][ \A s \in Sockets :
             cleanupRuns'[s] # cleanupRuns[s]
             => (/\ s \in DOMAIN socketToEmailMapping
                 /\ s \notin DOMAIN socketToEmailMapping'
                 /\ s \notin DOMAIN socketToRoomMapping') ]_vars

\* C6 witness: a connection that left explicitly, joined again and then lost
\* its transport has been cleaned up once by each path.
C6_Witness ==
    \E s \in Sockets :
        /\ status[s] = "closed"
        /\ cleanupRuns[s].explicit = 1
        /\ cleanupRuns[s].transport = 1
        /\ joinCount[s] = 2

\* C7: on explicit leave the user-left broadcast precedes the registry
\* removals and disconnect-acknowledged, sent to the leaver only, follows
\* them; on transport disconnect the broadcast precedes the removals and no
\* acknowledgment is emitted.
C7_NotifyRemoveAck ==
    lastEvent.type \in LeaveEvents =>
        LET left == EmitIndexes("user-left")
            acks == EmitIndexes("disconnect-acknowledged")
        IN  /\ (DeleteIndexes # {}) <=> (Cardinality(left) = 1)
            /\ DeleteIndexes # {} => Cardinality(DeleteIndexes) = 3
            /\ \A n \in left, d \in DeleteIndexes : n < d
            /\ \A d \in DeleteIndexes, a \in acks : d < a
            /\ \A n \in left, a \in acks : n < a
            /\ DeleteIndexes # {} => ~ReferencedAsKey(lastEvent.socket)
            /\ IF lastEvent.type = "user-disconnect"
               THEN /\ Cardinality(acks) = 1
                    /\ \A a \in acks : ops[a].to = {lastEvent.socket}
               ELSE acks = {}

\* C7 witness: an explicit leave of a joined connection notified a room
\* peer, removed the entries and acknowledged the leaver.
C7_Witness ==
    /\ lastEvent.type = "user-disconnect"
    /\ Len(ops) = 5
    /\ \E n \in EmitIndexes("user-left") : ops[n].to # {}

MapGetOr(m, k, default) == IF k \in DOMAIN m THEN m[k] ELSE default

NewPeer(u, tracks) ==
    [user |-> u, remoteDescription |-> FALSE, localDescription |-> FALSE,
     senders |-> tracks, applied |-> <<>>, offered |-> <<>>,
     connectionState |-> "new",
     failTimers |-> 0, restarts |-> 0, failures |-> 0, iceRestart |-> "none",
     trackTimer |-> FALSE, trackEvents |-> 0]

PeerIds == 1..Len(peers)

\* A functional updater handed to one of the three setState functions.
Update(cell, op, u, val) == [cell |-> cell, op |-> op, user |-> u, val |-> val]

Cells == [pc |-> peerConnections, rs |-> remoteStreams, pic |-> pendingIceCandidates]

\* The value an updater returns for the state it is given.
ApplyUpdate(st, up) ==
    CASE up.cell = "pc" /\ up.op = "set" -> [st EXCEPT !.pc = MapSet(@, up.user, up.val)]
      [] up.cell = "pc" /\ up.op = "del" -> [st EXCEPT !.pc = MapDelete(@, up.user)]
      [] up.cell = "rs" /\ up.op = "set" -> [st EXCEPT !.rs = MapSet(@, up.user, up.val)]
      [] up.cell = "rs" /\ up.op = "del" -> [st EXCEPT !.rs = MapDelete(@, up.user)]
      [] up.cell = "pic" /\ up.op = "append" ->
            [st EXCEPT !.pic = MapSet(@, up.user, Append(MapGetOr(@, up.user, <<>>), up.val))]
      [] up.cell = "pic" /\ up.op = "del" -> [st EXCEPT !.pic = MapDelete(@, up.user)]

RECURSIVE ApplyAll(_, _)
ApplyAll(st, q) == IF q = <<>> THEN st ELSE ApplyAll(ApplyUpdate(st, Head(q)), Tail(q))

\* The state cells once React has processed every pending updater.
View == ApplyAll(Cells, updateQueue)

Step(op, u) == [op |-> op, user |-> u]

PeerInit ==
    /\ peers = <<>>
    /\ peerConnections = EmptyMap
    /\ remoteStreams = EmptyMap
    /\ pendingIceCandidates = EmptyMap
    /\ updateQueue = <<>>
    /\ tasks = {}
    /\ nextCand = 1
    /\ malformed = {}
    /\ buffered = [u \in RemoteIds |-> <<>>]
    /\ calls = 0
    /\ lastCall = Step("none", Undefined)

\* React renders PeerProvider: the pending updaters are applied in order and
\* the callbacks created afterwards close over the new state.
Render ==
    /\ updateQueue # <<>>
    /\ peerConnections' = View.pc
    /\ remoteStreams' = View.rs
    /\ pendingIceCandidates' = View.pic
    /\ updateQueue' = <<>>
    /\ lastCall' = Step("render", Undefined)
    /\ UNCHANGED <<peers, tasks, nextCand, malformed, buffered, calls>>
    /\ UNCHANGED <<relayVars, metricVars, monitorVars, callVars>>

\* ---- createPeerConnection(userId, localStream) ----
Existing(u) == u \in DOMAIN peerConnections

IsClosed(p) == peers[p].connectionState = "closed"

\* The session createPeerConnection returns.
SessionFor(u) == IF Existing(u) THEN peerConnections[u] ELSE Len(peers) + 1

\* addTrack / createOffer / setRemoteDescription on a closed session throw.
Usable(u) == Existing(u) => ~IsClosed(peerConnections[u])

PeersAfterCreate(u, tracks) ==
    IF Existing(u)
    THEN [peers EXCEPT ![peerConnections[u]].senders = @ \cup tracks]
    ELSE Append(peers, NewPeer(u, tracks))

\* setPeerConnections((prev) => new Map(prev.set(userId, peer))): the updater
\* writes into the Map it is given.  React runs it at once when the
\* component has no other pending update (eager), otherwise at render.
CanBeEager(u) == ~Existing(u) /\ updateQueue = <<>>

QueueAfterCreate(u) ==
    IF Existing(u) THEN updateQueue
    ELSE Append(updateQueue, Update("pc", "set", u, Len(peers) + 1))

MapAfterCreate(u, eager) ==
    IF ~Existing(u) /\ eager THEN MapSet(peerConnections, u, Len(peers) + 1)
    ELSE peerConnections

CreateGuard(u, eager) ==
    /\ eager => CanBeEager(u)
    /\ ~Existing(u) => Len(peers) < MaxPeers

\* createOffer: createPeerConnection, peer.createOffer, setLocalDescription.
\* An offer made after restartIce() starts an ICE restart.
CreateOffer(u, tracks, eager) ==
    /\ CreateGuard(u, eager)
    /\ calls' = calls + 1
    /\ lastCall' = Step("createOffer", u)
    /\ IF Usable(u)
       THEN /\ peers' = [PeersAfterCreate(u, tracks) EXCEPT
                           ![SessionFor(u)].localDescription = TRUE,
                           ![SessionFor(u)].iceRestart =
                               IF @ = "requested" THEN "started" ELSE @]
            /\ peerConnections' = MapAfterCreate(u, eager)
            /\ updateQueue' = QueueAfterCreate(u)
       ELSE UNCHANGED <<peers, peerConnections, updateQueue>>
    /\ UNCHANGED <<remoteStreams, pendingIceCandidates, tasks, nextCand, malformed, buffered>>
    /\ UNCHANGED <<relayVars, metricVars, monitorVars, callVars>>

\* ---- asynchronous calls ----
Task(id, kind, u, p, snap, pc, cand) ==
    [id |-> id, kind |-> kind, user |-> u, peer |-> p, snap |-> snap,
     idx |-> 1, pc |-> pc, cand |-> cand]

\* peer.addIceCandidate(c) rejects: the session is closed or the browser
\* cannot use the candidate.  The candidates of malformed' are those that
\* have arrived up to and including the current step.
Rejects(ps, p, c) == ps[p].connectionState = "closed" \/ c \in malformed'

\* peer.addIceCandidate(c): the session takes the candidate unless the call
\* rejects, in which case the caller logs the error.
\* offered lists every candidate the call was made with.
ApplyCandidate(ps, p, c) ==
    IF Rejects(ps, p, c)
    THEN [ps EXCEPT ![p].offered = Append(@, c)]
    ELSE [ps EXCEPT ![p].applied = Append(@, c), ![p].offered = Append(@, c)]

\* createAnswer up to its first await: createPeerConnection, then
\* peer.setRemoteDescription(offer); the pending list it will drain is the
\* one of the pendingIceCandidates value the callback closed over.
CreateAnswer(u, tracks, eager) ==
    /\ CreateGuard(u, eager)
    /\ calls' = calls + 1
    /\ lastCall' = Step("createAnswer", u)
    /\ IF Usable(u)
       THEN /\ peers' = PeersAfterCreate(u, tracks)
            /\ peerConnections' = MapAfterCreate(u, eager)
            /\ updateQueue' = QueueAfterCreate(u)
            /\ tasks' = tasks \cup
                 {Task(calls + 1, "answer", u, SessionFor(u),
                       MapGetOr(pendingIceCandidates, u, <<>>), "setRemote", 0)}
       ELSE UNCHANGED <<peers, peerConnections, updateQueue, tasks>>
    /\ UNCHANGED <<remoteStreams, pendingIceCandidates, nextCand, malformed, buffered>>
    /\ UNCHANGED <<relayVars, metricVars, monitorVars, callVars>>

\* setRemoteAns up to its first await: the session is looked up in the
\* peerConnections value the callback closed over, and
\* peer.setRemoteDescription(ans) is called on it, closed or not.
SetRemoteAns(u) ==
    /\ calls' = calls + 1
    /\ lastCall' = Step("setRemoteAns", u)
    /\ IF Existing(u)
       THEN tasks' = tasks \cup
                 {Task(calls + 1, "ans", u, peerConnections[u],
                       MapGetOr(pendingIceCandidates, u, <<>>), "setRemote", 0)}
       ELSE UNCHANGED tasks
    /\ UNCHANGED <<peers, peerConnections, remoteStreams, pendingIceCandidates,
                   updateQueue, nextCand, malformed, buffered>>
    /\ UNCHANGED <<relayVars, metricVars, monitorVars, callVars>>

\* A drain loop without try / catch: the rejection of a queued candidate
\* ends the whole call.
CaughtNever(ps, t, i) ==
    IF Rejects(ps, t.peer, t.snap[i]) THEN {}
    ELSE {[t EXCEPT !.pc = "drain", !.idx = i + 1]}

\* try { await peer.addIceCandidate(candidate) } catch { console.error }
\* for the i-th queued candidate: rejected or not, the loop goes on with the
\* next one.
Caught(ps, t, i) == {[t EXCEPT !.pc = "drain", !.idx = i + 1]}

\* Where a createAnswer / setRemoteAns call continues once its queue work
\* is over: createAnswer goes on to produce the answer, setRemoteAns returns.
AfterDrain(t) ==
    IF t.kind = "answer" THEN {[t EXCEPT !.pc = "answer"]} ELSE {}

\* await peer.setRemoteDescription(...) settles.  On a closed session it
\* rejects with InvalidStateError and the call ends with that error;
\* otherwise the first queued candidate of the closed-over list, if any, is
\* passed to the session.
RemoteDescriptionSet(t) ==
    /\ t \in tasks /\ t.pc = "setRemote"
    /\ UNCHANGED malformed
    /\ lastCall' = Step(IF IsClosed(t.peer) THEN "rejected" ELSE "remoteDescriptionSet",
                        t.user)
    /\ IF IsClosed(t.peer)
       THEN /\ tasks' = tasks \ {t}
            /\ UNCHANGED peers
       ELSE LET ps == [peers EXCEPT ![t.peer].remoteDescription = TRUE,
                                    ![t.peer].iceRestart =
                                        IF peers[t.peer].connectionState = "failed"
                                        THEN "started" ELSE @]
            IN  IF t.snap = <<>>
                THEN /\ peers' = ps
                     /\ tasks' = (tasks \ {t}) \cup AfterDrain(t)
                ELSE /\ peers' = ApplyCandidate(ps, t.peer, t.snap[1])
                     /\ tasks' = (tasks \ {t}) \cup Caught(ps, t, 1)
    /\ UNCHANGED <<peerConnections, remoteStreams, pendingIceCandidates,
                   updateQueue, nextCand, buffered, calls>>
    /\ UNCHANGED <<relayVars, metricVars, monitorVars, callVars>>

\* await peer.addIceCandidate(candidate) of the drain loop resolves: the
\* next candidate is passed, or the loop is over and the queue is cleared.
DrainNext(t) ==
    /\ t \in tasks /\ t.pc = "drain"
    /\ UNCHANGED malformed
    /\ lastCall' = Step("drainNext", t.user)
    /\ IF t.idx <= Len(t.snap)
       THEN /\ peers' = ApplyCandidate(peers, t.peer, t.snap[t.idx])
            /\ tasks' = (tasks \ {t}) \cup Caught(peers, t, t.idx)
            /\ UNCHANGED updateQueue
       ELSE /\ updateQueue' = Append(updateQueue, Update("pic", "del", t.user, 0))
            /\ tasks' = (tasks \ {t}) \cup AfterDrain(t)
            /\ UNCHANGED peers
    /\ UNCHANGED <<peerConnections, remoteStreams, pendingIceCandidates,
                   nextCand, buffered, calls>>
    /\ UNCHANGED <<relayVars, metricVars, monitorVars, callVars>>

\* peer.createAnswer() and setLocalDescription(answer) of createAnswer
AnswerCreated(t) ==
    /\ t \in tasks /\ t.pc = "answer"
    /\ lastCall' = Step("answerCreated", t.user)
    /\ tasks' = tasks \ {t}
    /\ peers' = IF IsClosed(t.peer) THEN peers
                ELSE [peers EXCEPT ![t.peer].localDescription = TRUE]
    /\ UNCHANGED <<peerConnections, remoteStreams, pendingIceCandidates,
                   updateQueue, nextCand, malformed, buffered, calls>>
    /\ UNCHANGED <<relayVars, metricVars, monitorVars, callVars>>

\* The second half of addIceCandidate with the queueing branch taken only
\* when a session exists: a candidate for an identity without session is lost.
DecideCandidateDropNoSession(u, c, p) ==
    IF p # 0 /\ peers[p].remoteDescription
    THEN /\ peers' = ApplyCandidate(peers, p, c)
         /\ UNCHANGED <<updateQueue, buffered>>
    ELSE IF p # 0
    THEN /\ updateQueue' = Append(updateQueue, Update("pic", "append", u, c))
         /\ buffered' = [buffered EXCEPT ![u] = Append(@, c)]
         /\ UNCHANGED peers
    ELSE UNCHANGED <<peers, updateQueue, buffered>>

\* The second half of addIceCandidate: pass the candidate to the session p
\* found in the closed-over table (0: none) when its remote description is
\* set, otherwise append it to the pending queue.
DecideCandidate(u, c, p) ==
    IF p # 0 /\ peers[p].remoteDescription
    THEN /\ peers' = ApplyCandidate(peers, p, c)
         /\ UNCHANGED <<updateQueue, buffered>>
    ELSE /\ updateQueue' = Append(updateQueue, Update("pic", "append", u, c))
         /\ buffered' = [buffered EXCEPT ![u] = Append(@, c)]
         /\ UNCHANGED peers

\* addIceCandidate: a session without remote description makes the call wait
\* 50 ms; otherwise it decides at once.
AddIceCandidate(u) ==
    /\ nextCand <= MaxCands
    /\ nextCand' = nextCand + 1
    /\ \E bad \in BOOLEAN :
          malformed' = IF bad THEN malformed \cup {nextCand} ELSE malformed
    /\ lastCall' = Step("addIceCandidate", u)
    /\ IF Existing(u) /\ ~peers[peerConnections[u]].remoteDescription
       THEN /\ tasks' = tasks \cup
                 {Task(nextCand, "ice", u, peerConnections[u], <<>>, "wait", nextCand)}
            /\ UNCHANGED <<peers, updateQueue, buffered>>
       ELSE /\ DecideCandidate(u, nextCand, MapGetOr(peerConnections, u, 0))
            /\ UNCHANGED tasks
    /\ UNCHANGED <<peerConnections, remoteStreams, pendingIceCandidates, calls>>
    /\ UNCHANGED <<relayVars, metricVars, monitorVars, callVars>>

\* addIceCandidate after its 50 ms wait
IceWaitDone(t) ==
    /\ t \in tasks /\ t.pc = "wait"
    /\ UNCHANGED malformed
    /\ lastCall' = Step("iceWaitDone", t.user)
    /\ tasks' = tasks \ {t}
    /\ DecideCandidate(t.user, t.cand, t.peer)
    /\ UNCHANGED <<peerConnections, remoteStreams, pendingIceCandidates,
                   nextCand, calls>>
    /\ UNCHANGED <<relayVars, metricVars, monitorVars, callVars>>

\* removePeerConnection
RemovePeerConnection(u) ==
    /\ calls' = calls + 1
    /\ lastCall' = Step("removePeerConnection", u)
    /\ IF Existing(u)
       THEN /\ peers' = [peers EXCEPT ![peerConnections[u]].connectionState = "closed"]
            /\ updateQueue' = updateQueue \o << Update("pc", "del", u, 0),
                                               Update("rs", "del", u, 0),
                                               Update("pic", "del", u, 0) >>
            /\ buffered' = [buffered EXCEPT ![u] = <<>>]
       ELSE UNCHANGED <<peers, updateQueue, buffered>>
    /\ UNCHANGED <<peerConnections, remoteStreams, pendingIceCandidates,
                   tasks, nextCand, malformed>>
    /\ UNCHANGED <<relayVars, metricVars, monitorVars, callVars>>

\* ---- remote tracks ----
\* "track" listener: a track of the remote stream arrives and (re)starts the
\* 200 ms debounce timer of the session.
TrackEvent(p) ==
    /\ p \in PeerIds
    /\ ~IsClosed(p) /\ peers[p].remoteDescription
    /\ peers[p].trackEvents < MaxTrackEvents
    /\ peers' = [peers EXCEPT ![p].trackTimer = TRUE, ![p].trackEvents = @ + 1]
    /\ lastCall' = Step("track", peers[p].user)
    /\ UNCHANGED <<peerConnections, remoteStreams, pendingIceCandidates,
                   updateQueue, tasks, nextCand, malformed, buffered, calls>>
    /\ UNCHANGED <<relayVars, metricVars, monitorVars, callVars>>

\* The debounce timer fires: setRemoteStreams(prev => ... set(userId, stream))
TrackTimerFire(p) ==
    /\ p \in PeerIds
    /\ peers[p].trackTimer
    /\ peers' = [peers EXCEPT ![p].trackTimer = FALSE]
    /\ updateQueue' = Append(updateQueue, Update("rs", "set", peers[p].user, p))
    /\ lastCall' = Step("trackTimer", peers[p].user)
    /\ UNCHANGED <<peerConnections, remoteStreams, pendingIceCandidates,
                   tasks, nextCand, malformed, buffered, calls>>
    /\ UNCHANGED <<relayVars, metricVars, monitorVars, callVars>>

\* ---- transport state and recovery ----
\* The changes of RTCPeerConnection.connectionState the browser can report.
\* A failed transport leaves that state only through an ICE restart.
TransportStep(p, to) ==
    LET from == peers[p].connectionState
    IN  \/ from = "new" /\ to = "connecting"
           /\ peers[p].localDescription /\ peers[p].remoteDescription
        \/ from = "connecting" /\ to \in {"connected", "failed"}
        \/ from = "connected" /\ to = "disconnected"
        \/ from = "disconnected" /\ to \in {"connected", "failed"}
        \/ from = "failed" /\ to = "connecting" /\ peers[p].iceRestart = "started"

\* The 1000 ms timer of the "failed" branch fires and restarts ICE
\* without looking at the connection state again.
FailTimerFireUnchecked(p) ==
    /\ p \in PeerIds
    /\ peers[p].failTimers > 0
    /\ peers' = [peers EXCEPT ![p].failTimers = @ - 1,
                              ![p].restarts = @ + 1,
                              ![p].iceRestart = "requested"]
    /\ lastCall' = Step("failTimer", peers[p].user)
    /\ UNCHANGED <<peerConnections, remoteStreams, pendingIceCandidates,
                   updateQueue, tasks, nextCand, malformed, buffered, calls>>
    /\ UNCHANGED <<relayVars, metricVars, monitorVars, callVars>>

\* "connectionstatechange" listener: entering "failed" arms a 1000 ms timer.
ConnectionStateChange(p, to) ==
    /\ p \in PeerIds
    /\ TransportStep(p, to)
    /\ to = "failed" => peers[p].failures < MaxFailures
    /\ peers' = [peers EXCEPT
                    ![p].connectionState = to,
                    ![p].failures = IF to = "failed" THEN @ + 1 ELSE @,
                    ![p].failTimers = IF to = "failed" THEN @ + 1 ELSE @,
                    ![p].iceRestart = IF to = "connecting" THEN "none" ELSE @]
    /\ lastCall' = Step("connectionstatechange", peers[p].user)
    /\ UNCHANGED <<peerConnections, remoteStreams, pendingIceCandidates,
                   updateQueue, tasks, nextCand, malformed, buffered, calls>>
    /\ UNCHANGED <<relayVars, metricVars, monitorVars, callVars>>

\* The 1000 ms timer of the "failed" branch fires:
\* if (peer.connectionState === "failed") peer.restartIce()
FailTimerFire(p) ==
    /\ p \in PeerIds
    /\ peers[p].failTimers > 0
    /\ peers' = IF peers[p].connectionState = "failed"
                THEN [peers EXCEPT ![p].failTimers = @ - 1,
                                   ![p].restarts = @ + 1,
                                   ![p].iceRestart =
                                       IF @ = "started" THEN @ ELSE "requested"]
                ELSE [peers EXCEPT ![p].failTimers = @ - 1]
    /\ lastCall' = Step("failTimer", peers[p].user)
    /\ UNCHANGED <<peerConnections, remoteStreams, pendingIceCandidates,
                   updateQueue, tasks, nextCand, malformed, buffered, calls>>
    /\ UNCHANGED <<relayVars, metricVars, monitorVars, callVars>>

StreamChoices == {{}, LocalTracks}

TransportStates == {"connecting", "connected", "disconnected", "failed"}

PeerNext ==
    \/ Render
    \/ \E u \in RemoteIds, tr \in StreamChoices, eager \in BOOLEAN :
          calls < MaxCalls /\ CreateOffer(u, tr, eager)
    \/ \E u \in RemoteIds, tr \in StreamChoices, eager \in BOOLEAN :
          calls < MaxCalls /\ CreateAnswer(u, tr, eager)
    \/ \E u \in RemoteIds : calls < MaxCalls /\ SetRemoteAns(u)
    \/ \E t \in tasks : RemoteDescriptionSet(t)
    \/ \E t \in tasks : DrainNext(t)
    \/ \E t \in tasks : AnswerCreated(t)
    \/ \E u \in RemoteIds : AddIceCandidate(u)
    \/ \E t \in tasks : IceWaitDone(t)
    \/ \E u \in RemoteIds : calls < MaxCalls /\ RemovePeerConnection(u)
    \/ \E p \in PeerIds : TrackEvent(p)
    \/ \E p \in PeerIds : TrackTimerFire(p)

RecoveryNext ==
    \/ Render
    \/ \E u \in RemoteIds, eager \in BOOLEAN :
          calls < MaxCalls /\ CreateOffer(u, LocalTracks, eager)
    \/ \E u \in RemoteIds, eager \in BOOLEAN :
          calls < MaxCalls /\ CreateAnswer(u, LocalTracks, eager)
    \/ \E u \in RemoteIds : calls < MaxCalls /\ SetRemoteAns(u)
    \/ \E t \in tasks : RemoteDescriptionSet(t)
    \/ \E t \in tasks : AnswerCreated(t)
    \/ \E u \in RemoteIds : calls < MaxCalls /\ RemovePeerConnection(u)
    \/ \E p \in PeerIds, to \in TransportStates : ConnectionStateChange(p, to)
    \/ \E p \in PeerIds : FailTimerFire(p)

\* The offering side: an offer is made, candidates arrive, the answer is
\* set, and the session may be removed in between.
AnswerNext ==
    \/ Render
    \/ \E u \in RemoteIds, eager \in BOOLEAN :
          calls < MaxAnswerCalls /\ CreateOffer(u, LocalTracks, eager)
    \/ \E u \in RemoteIds : calls < MaxAnswerCalls /\ SetRemoteAns(u)
    \/ \E t \in tasks : RemoteDescriptionSet(t)
    \/ \E t \in tasks : DrainNext(t)
    \/ \E u \in RemoteIds : AddIceCandidate(u)
    \/ \E t \in tasks : IceWaitDone(t)
    \/ \E u \in RemoteIds : calls < MaxAnswerCalls /\ RemovePeerConnection(u)

\* ------------------------------------------------------------------------
\* Telemetry store (part_000): sample buffers and room aggregates
\* ------------------------------------------------------------------------
Metrics(latency, video, audio) ==
    [averageLatency |-> latency, videoQuality |-> video, audioQuality |-> audio]

\* The metrics objects of the performance-metrics messages.  A client may
\* leave a quality out.
MetricInputs ==
    {Metrics(10, "good", "good"), Metrics(25, "poor", "good"),
     Metrics(25, Undefined, "poor")}

\* The entry pushed for a message: {userId, timestamp, ...metrics}.  The
\* properties of metrics are spread last, so a userId or timestamp property
\* of metrics replaces the one written before it.  seq is the position of
\* the entry among all accepted samples.
Sample(emailId, timestamp, metrics, n) ==
    [userId |-> IF "userId" \in DOMAIN metrics THEN metrics.userId ELSE emailId,
     timestamp |-> IF "timestamp" \in DOMAIN metrics THEN metrics.timestamp
                   ELSE timestamp,
     averageLatency |-> metrics.averageLatency,
     videoQuality |-> metrics.videoQuality,
     audioQuality |-> metrics.audioQuality, seq |-> n]

\* A truncation without the length test: every insertion into a buffer
\* that already holds an entry drops the oldest one.
TruncateAlways(buf) ==
    IF Len(buf) > 1 THEN Tail(buf) ELSE buf

\* if (length > 1000) splice(0, length - 1000)
Truncate(buf) ==
    IF Len(buf) > Cap THEN SubSeq(buf, Len(buf) - Cap + 1, Len(buf)) ELSE buf

\* roomMetricsArray.filter(m => m.timestamp > limit), as positions
NewerThan(buf, limit) == {i \in 1..Len(buf) : buf[i].timestamp > limit}

\* m.videoQuality || 'unknown'
QualityOr(q) == IF Truthy(q) THEN q ELSE "unknown"

VideoOf(m) == QualityOr(m.videoQuality)

AudioOf(m) == QualityOr(m.audioQuality)

\* reduce((sum, m) => sum + (m.averageLatency || 0), 0) over the entries at
\* the positions of idx between lo and hi
RECURSIVE SumLatency(_, _, _, _)
SumLatency(buf, idx, lo, hi) ==
    IF lo > hi THEN 0
    ELSE IF lo = hi THEN (IF lo \in idx THEN buf[lo].averageLatency ELSE 0)
    ELSE LET mid == (lo + hi) \div 2
         IN  SumLatency(buf, idx, lo, mid) + SumLatency(buf, idx, mid + 1, hi)

\* Math.round(sum / n) for a non-negative sum
RoundedMean(sum, n) == (2 * sum + n) \div (2 * n)

\* Quality histogram of the entries at positions idx: quality -> count.
\* which is "video" or "audio".
QualityAt(buf, which, i) == IF which = "video" THEN VideoOf(buf[i]) ELSE AudioOf(buf[i])

\* counts[q] = (counts[q] || 0) + 1 on an object literal: for the key
\* "__proto__" the read yields Object.prototype and the write of the
\* resulting text goes to the inherited setter, which ignores a value that
\* is not an object, so the key never becomes a property of counts.
AccessorKeys == {"__proto__"}

QualityCounts(buf, idx, which) ==
    [q \in {QualityAt(buf, which, i) : i \in idx} \ AccessorKeys |->
        Cardinality({i \in idx : QualityAt(buf, which, i) = q})]

\* The qualities of the entries at the positions of idx between lo and hi,
\* each once, in the order of their first occurrence.
RECURSIVE KeysBetween(_, _, _, _, _)
KeysBetween(buf, idx, which, lo, hi) ==
    IF lo > hi THEN <<>>
    ELSE IF lo = hi
    THEN (IF lo \in idx /\ QualityAt(buf, which, lo) \notin AccessorKeys
          THEN <<QualityAt(buf, which, lo)>> ELSE <<>>)
    ELSE LET mid == (lo + hi) \div 2
             left == KeysBetween(buf, idx, which, lo, mid)
             right == KeysBetween(buf, idx, which, mid + 1, hi)
             New(q) == \A j \in 1..Len(left) : left[j] # q
         IN  left \o SelectSeq(right, New)

\* Object.keys(counts): the keys in the order they were first inserted.
KeysInOrder(buf, idx, which) == KeysBetween(buf, idx, which, 1, Len(buf))

\* keys.reduce((a, b) => counts[a] > counts[b] ? a : b, 'unknown'); a count
\* that is undefined compares false.
RECURSIVE ReduceDominant(_, _, _)
ReduceDominant(counts, keys, a) ==
    IF keys = <<>> THEN a
    ELSE LET b == Head(keys)
         IN  ReduceDominant(counts, Tail(keys),
                            IF a \in DOMAIN counts /\ counts[a] > counts[b] THEN a ELSE b)

DominantQuality(buf, idx, which) ==
    ReduceDominant(QualityCounts(buf, idx, which), KeysInOrder(buf, idx, which), "unknown")

\* An aggregate built from every entry of the buffer, the entries outside
\* the recency window included.
AggregateOverBuffer(roomId, buf, idx, t) ==
    [roomId |-> roomId,
     totalUsers |-> Cardinality({buf[i].userId : i \in 1..Len(buf)}),
     averageLatency |-> RoundedMean(SumLatency(buf, 1..Len(buf), 1, Len(buf)), Len(buf)),
     dominantVideoQuality |-> DominantQuality(buf, 1..Len(buf), "video"),
     dominantAudioQuality |-> DominantQuality(buf, 1..Len(buf), "audio"),
     videoQualityDistribution |-> QualityCounts(buf, 1..Len(buf), "video"),
     audioQualityDistribution |-> QualityCounts(buf, 1..Len(buf), "audio"),
     sampleCount |-> Len(buf),
     lastUpdated |-> t]

\* The aggregatedMetrics object built from the entries at positions idx.
Aggregate(roomId, buf, idx, t) ==
    [roomId |-> roomId,
     totalUsers |-> Cardinality({buf[i].userId : i \in idx}),
     averageLatency |-> RoundedMean(SumLatency(buf, idx, 1, Len(buf)), Cardinality(idx)),
     dominantVideoQuality |-> DominantQuality(buf, idx, "video"),
     dominantAudioQuality |-> DominantQuality(buf, idx, "audio"),
     videoQualityDistribution |-> QualityCounts(buf, idx, "video"),
     audioQualityDistribution |-> QualityCounts(buf, idx, "audio"),
     sampleCount |-> Cardinality(idx),
     lastUpdated |-> t]

\* io.to(roomId): every member of the room, the sender included.
IoTo(room) == {t \in Sockets : InRoom(t, room)}

\* An aggregate recomputation that stores a zeroed aggregate when no
\* sample is recent.
CalculateRoomMetricsZeroed(pm, rm, roomId, t) ==
    LET buf == MapGetOr(pm, roomId, <<>>)
        recent == NewerThan(buf, t - RecencyWindow)
        agg == IF recent = {}
               THEN [roomId |-> roomId, totalUsers |-> 0, averageLatency |-> 0,
                     dominantVideoQuality |-> "unknown",
                     dominantAudioQuality |-> "unknown",
                     videoQualityDistribution |-> EmptyMap,
                     audioQualityDistribution |-> EmptyMap,
                     sampleCount |-> 0, lastUpdated |-> t]
               ELSE Aggregate(roomId, buf, recent, t)
    IN  IF Len(buf) = 0
        THEN [roomMetrics |-> rm, ops |-> <<>>]
        ELSE [roomMetrics |-> MapSet(rm, roomId, agg),
              ops |-> << SetOp("roomMetrics", roomId),
                         EmitOp("room-metrics-update", IoTo(roomId), Undefined, agg) >>]

\* calculateRoomMetrics(roomId): the aggregate store and the effects it
\* leaves, for sample store pm, aggregate store rm and clock t.
CalculateRoomMetrics(pm, rm, roomId, t) ==
    LET buf == MapGetOr(pm, roomId, <<>>)
        recent == NewerThan(buf, t - RecencyWindow)
    IN  IF Len(buf) = 0 \/ recent = {}
        THEN [roomMetrics |-> rm, ops |-> <<>>]
        ELSE LET agg == Aggregate(roomId, buf, recent, t)
             IN  [roomMetrics |-> MapSet(rm, roomId, agg),
                  ops |-> << SetOp("roomMetrics", roomId),
                             EmitOp("room-metrics-update", IoTo(roomId), Undefined, agg) >>]

MetricsInit ==
    /\ performanceMetrics = EmptyMap
    /\ roomMetrics = EmptyMap
    /\ now = 0
    /\ inserted = 0
    /\ ticks = 0

\* socket.on('performance-metrics')
PerformanceMetrics(s, timestamp, metrics) ==
    LET emailId == MapGet(socketToEmailMapping, s)
        roomId == MapGet(socketToRoomMapping, s)
    IN  /\ status[s] = "connected"
        /\ lastEvent' = Event("performance-metrics", s, Undefined, timestamp)
        /\ IF Truthy(emailId) /\ Truthy(roomId)
           THEN LET buf == Append(MapGetOr(performanceMetrics, roomId, <<>>),
                                  Sample(emailId, timestamp, metrics, inserted + 1))
                    pm == MapSet(performanceMetrics, roomId, Truncate(buf))
                    res == CalculateRoomMetrics(pm, roomMetrics, roomId, now)
                IN  /\ performanceMetrics' = pm
                    /\ roomMetrics' = res.roomMetrics
                    /\ ops' = res.ops
                    /\ inserted' = inserted + 1
           ELSE /\ ops' = <<>>
                /\ UNCHANGED <<performanceMetrics, roomMetrics, inserted>>
        /\ UNCHANGED <<status, emailToSocketMapping, socketToEmailMapping,
                       socketToRoomMapping, adapterRooms, joinCount, cleanupRuns>>
        /\ UNCHANGED <<now, ticks>>
        /\ UNCHANGED <<peerVars, monitorVars, callVars>>

\* socket.on('get-room-metrics')
GetRoomMetrics(s) ==
    LET emailId == MapGet(socketToEmailMapping, s)
        roomId == MapGet(socketToRoomMapping, s)
    IN  /\ status[s] = "connected"
        /\ lastEvent' = Event("get-room-metrics", s, Undefined, "")
        /\ ops' = IF Truthy(emailId) /\ Truthy(roomId)
                  THEN << EmitOp("room-metrics", {s}, Undefined,
                                 MapGetOr(roomMetrics, roomId, "null")) >>
                  ELSE <<>>
        /\ UNCHANGED <<status, emailToSocketMapping, socketToEmailMapping,
                       socketToRoomMapping, adapterRooms, joinCount, cleanupRuns>>
        /\ UNCHANGED metricVars
        /\ UNCHANGED <<peerVars, monitorVars, callVars>>

\* A sweep filter that also keeps the samples exactly as old as the
\* staleness window.
KeptInclusive(r, t) ==
    LET buf == performanceMetrics[r]
        idx == NewerThan(buf, t - StalenessWindow - 1)
    IN  [n \in 1..Cardinality(idx) |->
            buf[CHOOSE i \in idx : Cardinality({k \in idx : k < i}) = n - 1]]

\* The samples of room r that a sweep at time t keeps.
Kept(r, t) ==
    LET buf == performanceMetrics[r]
        idx == NewerThan(buf, t - StalenessWindow)
    IN  [n \in 1..Cardinality(idx) |->
            buf[CHOOSE i \in idx : Cardinality({k \in idx : k < i}) = n - 1]]

\* A sweep that removes the buffers of the emptied rooms and leaves their
\* aggregates in the aggregate store.
SweepKeepsAggregates ==
    LET live == {r \in DOMAIN performanceMetrics : Kept(r, now) # <<>>}
    IN  /\ performanceMetrics' = [r \in live |-> Kept(r, now)]
        /\ lastEvent' = Event("sweep", Undefined, Undefined, "")
        /\ ops' = <<>>
        /\ UNCHANGED <<status, emailToSocketMapping, socketToEmailMapping,
                       socketToRoomMapping, adapterRooms, joinCount, cleanupRuns>>
        /\ UNCHANGED <<roomMetrics, now, inserted, ticks>>
        /\ UNCHANGED <<peerVars, monitorVars, callVars>>

\* The setInterval callback: drop the samples older than five minutes and
\* remove the rooms left without samples.
Sweep ==
    LET live == {r \in DOMAIN performanceMetrics : Kept(r, now) # <<>>}
    IN  /\ performanceMetrics' = [r \in live |-> Kept(r, now)]
        /\ roomMetrics' = [r \in (DOMAIN roomMetrics)
                                   \ ((DOMAIN performanceMetrics) \ live) |-> roomMetrics[r]]
        /\ lastEvent' = Event("sweep", Undefined, Undefined, "")
        /\ ops' = <<>>
        /\ UNCHANGED <<status, emailToSocketMapping, socketToEmailMapping,
                       socketToRoomMapping, adapterRooms, joinCount, cleanupRuns>>
        /\ UNCHANGED <<now, inserted, ticks>>
        /\ UNCHANGED <<peerVars, monitorVars, callVars>>

\* Time passes between two callbacks.
Tick(d) ==
    /\ ticks < MaxTicks
    /\ now' = now + d
    /\ ticks' = ticks + 1
    /\ UNCHANGED <<performanceMetrics, roomMetrics, inserted>>
    /\ UNCHANGED relayVars
    /\ UNCHANGED <<peerVars, monitorVars, callVars>>

Delays == {RecencyWindow, StalenessWindow}

\* Timestamps a client can send at relay time t: its clock agrees with the
\* relay's or is behind by the recency window.
ClientTimes(t) == {t, t - RecencyWindow}

MetricSockets == {"s1", "s2"}

MetricEmails == {"a", "b", ""}

MetricRooms == {"r1", "r2"}

MetricsNext ==
    \/ \E s \in MetricSockets : Connect(s)
    \/ \E s \in MetricSockets, e \in MetricEmails, r \in MetricRooms : JoinRoom(s, r, e)
    \/ \E s \in MetricSockets, m \in MetricInputs :
          \E ts \in ClientTimes(now) : inserted < MaxSamples /\ PerformanceMetrics(s, ts, m)
    \/ \E s \in MetricSockets : GetRoomMetrics(s)
    \/ Sweep
    \/ \E d \in Delays : Tick(d)

\* One client that keeps reporting the same measurements.
SteadyInput == Metrics(10, "good", "good")

CapNext ==
    \/ Connect("s1")
    \/ JoinRoom("s1", "r1", "a")
    \/ inserted < Cap + MaxOverflow /\ PerformanceMetrics("s1", now, SteadyInput)

\* Metrics objects that also carry the properties the relay writes itself.
ForgedInputs ==
    {SteadyInput @@ [userId |-> "b"],
     SteadyInput @@ [timestamp |-> StalenessWindow],
     SteadyInput @@ [userId |-> "b", timestamp |-> StalenessWindow],
     Metrics(10, "__proto__", "good")}

\* Clients that choose the properties of the metrics object freely.
ForgeNext ==
    \/ \E s \in MetricSockets : Connect(s)
    \/ \E s \in MetricSockets, e \in {"a", "b"} : JoinRoom(s, "r1", e)
    \/ \E s \in MetricSockets, m \in {SteadyInput} \cup ForgedInputs :
          \E ts \in ClientTimes(now) : inserted < MaxSamples /\ PerformanceMetrics(s, ts, m)
    \/ \E d \in Delays : Tick(d)

\* ---- GET /api/performance-data/:roomId ----
\* A startTime / endTime query parameter: left out, an ISO timestamp of the
\* instant ms, or a text that is not a date.
NoParam == [form |-> "absent", ms |-> 0]

IsoTime(ms) == [form |-> "iso", ms |-> ms]

NotADate == [form |-> "text", ms |-> 0]

\* if (startTime): a parameter that was left out is undefined
Given(param) == param.form # "absent"

\* new Date(param).getTime(): the instant of an ISO timestamp in
\* milliseconds, NaN for a text Date cannot parse
GetTime(param) ==
    IF param.form = "iso" THEN [nan |-> FALSE, ms |-> param.ms]
    ELSE [nan |-> TRUE, ms |-> 0]

\* A lower bound that leaves out the samples stamped exactly startTime
AtLeastStrict(timestamp, t) == ~t.nan /\ timestamp > t.ms

\* m.timestamp >= start; a comparison with NaN is false
AtLeast(timestamp, t) == ~t.nan /\ timestamp >= t.ms

\* m.timestamp <= end
AtMost(timestamp, t) == ~t.nan /\ timestamp <= t.ms

\* The response body of the query
FilteredMetrics(roomId, startTime, endTime, userId) ==
    LET rawMetrics == MapGetOr(performanceMetrics, roomId, <<>>)
        byStart == IF Given(startTime)
                   THEN SelectSeq(rawMetrics,
                                  LAMBDA m : AtLeast(m.timestamp, GetTime(startTime)))
                   ELSE rawMetrics
        byEnd == IF Given(endTime)
                 THEN SelectSeq(byStart, LAMBDA m : AtMost(m.timestamp, GetTime(endTime)))
                 ELSE byStart
        byUser == IF Truthy(userId)
                  THEN SelectSeq(byEnd, LAMBDA m : m.userId = userId)
                  ELSE byEnd
    IN  [roomId |-> roomId, metricsCount |-> Len(byUser), metrics |-> byUser]

Query(roomId, startTime, endTime, userId) ==
    [roomId |-> roomId, startTime |-> startTime, endTime |-> endTime, userId |-> userId]

\* app.get('/api/performance-data/:roomId'): res.json(...) is recorded as the
\* one operation of the request.
PerformanceData(roomId, startTime, endTime, userId) ==
    /\ lastEvent' = Event("performance-data", Undefined, Undefined,
                          Query(roomId, startTime, endTime, userId))
    /\ ops' = << EmitOp("response", {}, Undefined,
                        FilteredMetrics(roomId, startTime, endTime, userId)) >>
    /\ UNCHANGED <<status, emailToSocketMapping, socketToEmailMapping,
                   socketToRoomMapping, adapterRooms, joinCount, cleanupRuns>>
    /\ UNCHANGED metricVars
    /\ UNCHANGED <<peerVars, monitorVars, callVars>>

StartParams == {NoParam, IsoTime(0), NotADate}

EndParams == {NoParam, IsoTime(RecencyWindow), NotADate}

UserParams == {Undefined, "a"}

\* Two clients of one room report, the clock advances, and the raw samples
\* of that room and of a room without samples are queried.
QueryNext ==
    \/ \E s \in MetricSockets : Connect(s)
    \/ \E s \in MetricSockets, e \in {"a", "b"} : JoinRoom(s, "r1", e)
    \/ \E s \in MetricSockets, ts \in ClientTimes(now) :
          inserted < MaxSamples /\ PerformanceMetrics(s, ts, SteadyInput)
    \/ \E d \in Delays : Tick(d)
    \/ \E r \in MetricRooms, st \in StartParams, et \in EndParams, u \in UserParams :
          PerformanceData(r, st, et, u)

\* ------------------------------------------------------------------------
\* Performance monitor (PerformanceMonitor.tsx): quality scores
\* ------------------------------------------------------------------------
\* The fields of ConnectionStats the scorers read
Stat(received, lost, rtt, fps, jitter) ==
    [packetsReceived |-> received, packetsLost |-> lost, roundTripTime |-> rtt,
     framesPerSecond |-> fps, jitter |-> jitter]

\* A number as the quotient num / den, den > 0
Frac(n, d) == [num |-> n, den |-> d]

\* packetsReceived > 0 ? (packetsLost / (packetsReceived + packetsLost)) * 100 : 0
PacketLossRate(stat) ==
    IF stat.packetsReceived > 0
    THEN Frac(100 * stat.packetsLost, stat.packetsReceived + stat.packetsLost)
    ELSE Frac(0, 1)

\* The deductions of calculateVideoQuality for round-trip time, frame rate
\* and jitter
VideoDeduction(stat) ==
      (IF stat.roundTripTime > 200 THEN 20 ELSE IF stat.roundTripTime > 100 THEN 10 ELSE 0)
    + (IF stat.framesPerSecond < 15 THEN 30 ELSE IF stat.framesPerSecond < 24 THEN 15 ELSE 0)
    + (IF stat.jitter > 50 THEN 20 ELSE IF stat.jitter > 30 THEN 10 ELSE 0)

\* The deductions of calculateAudioQuality for round-trip time and jitter
AudioDeduction(stat) ==
      (IF stat.roundTripTime > 150 THEN 25 ELSE IF stat.roundTripTime > 100 THEN 15 ELSE 0)
    + (IF stat.jitter > 30 THEN 25 ELSE IF stat.jitter > 20 THEN 15 ELSE 0)

\* A score that grows with the packet loss
ScoreOfRewardingLoss(stat, weight, deduction) ==
    LET rate == PacketLossRate(stat)
        n == (100 - deduction) * rate.den + weight * rate.num
    IN  Frac(IF n > 0 THEN n ELSE 0, rate.den)

\* score = 100; score -= packetLossRate * weight; score -= deductions;
\* Math.max(0, score)
ScoreOf(stat, weight, deduction) ==
    LET rate == PacketLossRate(stat)
        n == (100 - deduction) * rate.den - weight * rate.num
    IN  Frac(IF n > 0 THEN n ELSE 0, rate.den)

VideoScore(stat) == ScoreOf(stat, 10, VideoDeduction(stat))

AudioScore(stat) == ScoreOf(stat, 15, AudioDeduction(stat))

\* totalScore after stats.forEach; which is "video" or "audio"
RECURSIVE TotalScore(_, _)
TotalScore(stats, which) ==
    IF stats = <<>> THEN Frac(0, 1)
    ELSE LET h == IF which = "video" THEN VideoScore(Head(stats))
                  ELSE AudioScore(Head(stats))
             t == TotalScore(Tail(stats), which)
         IN  Frac(h.num * t.den + t.num * h.den, h.den * t.den)

\* averageScore >= k, with averageScore = count > 0 ? totalScore / count : 100
AverageAtLeast(total, count, k) ==
    IF count > 0 THEN total.num >= k * count * total.den ELSE 100 >= k

\* A video scorer whose bands exclude their lower limit
CalculateVideoQualityStrict(stats) ==
    LET total == TotalScore(stats, "video")
        Exceeds(k) == /\ AverageAtLeast(total, Len(stats), k)
                      /\ ~(Len(stats) > 0 /\ total.num = k * Len(stats) * total.den)
    IN  IF Exceeds(80) THEN "excellent"
        ELSE IF Exceeds(60) THEN "good"
        ELSE IF Exceeds(40) THEN "fair"
        ELSE "poor"

CalculateVideoQuality(stats) ==
    LET total == TotalScore(stats, "video")
    IN  IF AverageAtLeast(total, Len(stats), 80) THEN "excellent"
        ELSE IF AverageAtLeast(total, Len(stats), 60) THEN "good"
        ELSE IF AverageAtLeast(total, Len(stats), 40) THEN "fair"
        ELSE "poor"

CalculateAudioQuality(stats) ==
    LET total == TotalScore(stats, "audio")
    IN  IF AverageAtLeast(total, Len(stats), 85) THEN "excellent"
        ELSE IF AverageAtLeast(total, Len(stats), 70) THEN "good"
        ELSE IF AverageAtLeast(total, Len(stats), 50) THEN "fair"
        ELSE "poor"

\* useState: the metrics before the first collection
MonitorInit ==
    /\ connectionStats = <<>>
    /\ videoQuality = "good"
    /\ audioQuality = "good"

\* collectMetrics with the statistics stats of the open connections
CollectMetrics(stats) ==
    /\ connectionStats' = stats
    /\ videoQuality' = CalculateVideoQuality(stats)
    /\ audioQuality' = CalculateAudioQuality(stats)
    /\ UNCHANGED <<relayVars, peerVars, metricVars, callVars>>

\* Received and lost packets of a connection: nothing yet, no loss, 2 %,
\* 5 %, and losses reported before any packet was counted as received.
PacketCounts == {<<0, 0>>, <<100, 0>>, <<98, 2>>, <<95, 5>>, <<0, 5>>}

RoundTripTimes == {50, 150}

FrameRates == {10, 30}

Jitters == {10, 40}

StatInputs ==
    {Stat(pc[1], pc[2], rtt, fps, j) :
        pc \in PacketCounts, rtt \in RoundTripTimes, fps \in FrameRates, j \in Jitters}

\* The statistics of up to MaxConnections connections
StatsInputs == UNION {[1..n -> StatInputs] : n \in 0..MaxConnections}

MonitorNext == \E stats \in StatsInputs : CollectMetrics(stats)

\* ------------------------------------------------------------------------
\* Call setup between two participants (Home.tsx, Room.tsx, Peer.tsx, relay)
\* ------------------------------------------------------------------------
\* The participants, named by the identity they join with.
Clients == {"a", "b"}

SocketOf == [a |-> "s1", b |-> "s2"]

CallRoom == "r1"

NoSession ==
    [peer |-> Undefined, created |-> FALSE, visible |-> FALSE,
     localDescription |-> FALSE, remoteDescription |-> FALSE, stage |-> "idle"]

CallInit ==
    /\ page = [c \in Clients |-> "home"]
    /\ wire = [c \in Clients |-> <<>>]
    /\ session = [c \in Clients |-> NoSession]

\* The emits of a relay handler, put on the connection of every client
\* they are addressed to, behind the messages already on their way.
Transmit(w, emitted) ==
    [c \in Clients |->
        w[c] \o SelectSeq(emitted, LAMBDA o : o.op = "emit" /\ SocketOf[c] \in o.to)]

\* The listener of an event exists: Home listens to joined-room while it is
\* shown (Home.tsx:23-29); the listeners of Room exist once the effect of
\* Room.tsx:540-567 has run.
Listening(c, ev) ==
    IF ev = "joined-room" THEN page[c] = "home" ELSE page[c] = "room"

Arrived(c, ev) == wire[c] # <<>> /\ Head(wire[c]).ev = ev /\ Listening(c, ev)

Taken(c) == [wire EXCEPT ![c] = Tail(@)]

\* Home.tsx handleJoin: socket.emit("join-room", ...), and the relay's
\* handling of the message.
HandleJoin(c) ==
    /\ page[c] = "home"
    /\ joinCount[SocketOf[c]] = 0
    /\ OnJoinRoom(SocketOf[c], CallRoom, c)
    /\ wire' = Transmit(wire, ops')
    /\ UNCHANGED <<page, session>>
    /\ UNCHANGED <<peerVars, metricVars, monitorVars>>

\* Home.tsx handleRoomJoined: navigate to the room page.
HandleRoomJoined(c) ==
    /\ Arrived(c, "joined-room")
    /\ page' = [page EXCEPT ![c] = "mounting"]
    /\ wire' = Taken(c)
    /\ UNCHANGED session
    /\ UNCHANGED <<relayVars, peerVars, metricVars, monitorVars>>

\* Room is rendered and its effect registers the listeners (Room.tsx:540-567).
Mount(c) ==
    /\ page[c] = "mounting"
    /\ page' = [page EXCEPT ![c] = "room"]
    /\ UNCHANGED <<wire, session>>
    /\ UNCHANGED <<relayVars, peerVars, metricVars, monitorVars>>

\* A message arrives for which the client has no listener: socket.io
\* delivers it to nobody.
Unheard(c) ==
    /\ wire[c] # <<>>
    /\ ~Listening(c, Head(wire[c]).ev)
    /\ wire' = Taken(c)
    /\ UNCHANGED <<page, session>>
    /\ UNCHANGED <<relayVars, peerVars, metricVars, monitorVars>>

\* createPeerConnection as the first step of createOffer / createAnswer:
\* a session object for the remote identity, and the updater that enters it
\* into peerConnections (run at once when eager, at the next render
\* otherwise).
Created(c, remote, eager, stage) ==
    [session EXCEPT ![c] = [peer |-> remote, created |-> TRUE,
                            visible |-> (@.visible /\ @.peer = remote) \/ eager,
                            localDescription |-> FALSE,
                            remoteDescription |-> FALSE,
                            stage |-> stage]]

\* Room.tsx handleNewUserJoined up to "await peer.createOffer()"
HandleNewUserJoined(c, eager) ==
    /\ Arrived(c, "user-joined")
    /\ session' = Created(c, Head(wire[c]).data.from, eager, "offering")
    /\ wire' = Taken(c)
    /\ UNCHANGED page
    /\ UNCHANGED <<relayVars, peerVars, metricVars, monitorVars>>

\* The rest of handleNewUserJoined: setLocalDescription(offer), then
\* socket.emit("call-user", ...), and the relay's handling of the message.
SendOffer(c) ==
    /\ session[c].stage = "offering"
    /\ session' = [session EXCEPT ![c].localDescription = TRUE, ![c].stage = "idle"]
    /\ OnForward(SocketOf[c], "call-user", "incomming-call", session[c].peer, "offer")
    /\ wire' = Transmit(wire, ops')
    /\ UNCHANGED page
    /\ UNCHANGED <<peerVars, metricVars, monitorVars>>

\* Room.tsx handleIncommingCall up to "await peer.setRemoteDescription(offer)"
HandleIncommingCall(c, eager) ==
    /\ Arrived(c, "incomming-call")
    /\ session' = Created(c, Head(wire[c]).data.from, eager, "answering")
    /\ wire' = Taken(c)
    /\ UNCHANGED page
    /\ UNCHANGED <<relayVars, peerVars, metricVars, monitorVars>>

\* The rest of handleIncommingCall: the offer is the remote description, the
\* answer the local one, then socket.emit("call-accepted", ...), and the
\* relay's handling of the message.
SendAnswer(c) ==
    /\ session[c].stage = "answering"
    /\ session' = [session EXCEPT ![c].remoteDescription = TRUE,
                                  ![c].localDescription = TRUE,
                                  ![c].stage = "idle"]
    /\ OnForward(SocketOf[c], "call-accepted", "call-accepted", session[c].peer, "ans")
    /\ wire' = Transmit(wire, ops')
    /\ UNCHANGED page
    /\ UNCHANGED <<peerVars, metricVars, monitorVars>>

\* Room.tsx handleCallAccepted -> setRemoteAns: the session is looked up in
\* peerConnections; without an entry for the sender nothing happens.
HandleCallAccepted(c) ==
    /\ Arrived(c, "call-accepted")
    /\ session' = IF session[c].visible /\ session[c].peer = Head(wire[c]).data.from
                  THEN [session EXCEPT ![c].stage = "applying"]
                  ELSE session
    /\ wire' = Taken(c)
    /\ UNCHANGED page
    /\ UNCHANGED <<relayVars, peerVars, metricVars, monitorVars>>

\* "await peer.setRemoteDescription(ans)" of setRemoteAns resolves.
AnswerApplied(c) ==
    /\ session[c].stage = "applying"
    /\ session' = [session EXCEPT ![c].remoteDescription = TRUE, ![c].stage = "idle"]
    /\ UNCHANGED <<page, wire>>
    /\ UNCHANGED <<relayVars, peerVars, metricVars, monitorVars>>

\* React renders PeerProvider and runs the queued setPeerConnections updater.
Commit(c) ==
    /\ session[c].created
    /\ ~session[c].visible
    /\ session' = [session EXCEPT ![c].visible = TRUE]
    /\ UNCHANGED <<page, wire>>
    /\ UNCHANGED <<relayVars, peerVars, metricVars, monitorVars>>

\* Everything client c does on its own.
ClientStep(c) ==
    \/ HandleRoomJoined(c)
    \/ Mount(c)
    \/ Unheard(c)
    \/ \E eager \in BOOLEAN : HandleNewUserJoined(c, eager)
    \/ SendOffer(c)
    \/ \E eager \in BOOLEAN : HandleIncommingCall(c, eager)
    \/ SendAnswer(c)
    \/ HandleCallAccepted(c)
    \/ AnswerApplied(c)
    \/ Commit(c)

CallNext ==
    \/ \E c \in Clients : Connect(SocketOf[c])
    \/ \E c \in Clients : HandleJoin(c)
    \/ \E c \in Clients : HandleRoomJoined(c)
    \/ \E c \in Clients : Mount(c)
    \/ \E c \in Clients : Unheard(c)
    \/ \E c \in Clients, eager \in BOOLEAN : HandleNewUserJoined(c, eager)
    \/ \E c \in Clients : SendOffer(c)
    \/ \E c \in Clients, eager \in BOOLEAN : HandleIncommingCall(c, eager)
    \/ \E c \in Clients : SendAnswer(c)
    \/ \E c \in Clients : HandleCallAccepted(c)
    \/ \E c \in Clients : AnswerApplied(c)
    \/ \E c \in Clients : Commit(c)

\* ------------------------------------------------------------------------
\* Specifications
\* ------------------------------------------------------------------------
Init == RelayInit /\ PeerInit /\ MetricsInit /\ MonitorInit /\ CallInit

\* The relay on its own.
Spec == Init /\ [][RelayNext]_vars

\* One client's peer session manager: sessions, candidates and remote media.
SpecPeer == Init /\ [][PeerNext]_vars

SpecAnswer == Init /\ [][AnswerNext]_vars

\* One client's peer session manager: sessions, transport state and recovery.
SpecRecovery == Init /\ [][RecoveryNext]_vars

\* The relay's telemetry store: samples, aggregates, sweep and clock.
SpecMetrics == Init /\ [][MetricsNext]_vars

\* The telemetry store filled by one client up to and past its cap.
SpecCap == Init /\ [][CapNext]_vars

\* The telemetry store and its raw-sample query.
SpecQuery == Init /\ [][QueryNext]_vars

\* The telemetry store fed with metrics objects of any shape.
SpecForge == Init /\ [][ForgeNext]_vars

\* Two participants joining one room and setting up their call.
SpecCall == Init /\ [][CallNext]_vars

\* The same with fair scheduling: a message on a connection is eventually
\* delivered, and a step a client can take on its own (an await that
\* resolves, a render, an effect) is eventually taken.
SpecCallFair == SpecCall /\ \A c \in Clients : WF_vars(ClientStep(c))

\* The performance monitor's periodic collection.
SpecMonitor == Init /\ [][MonitorNext]_vars

\* ------------------------------------------------------------------------
\* Peer session manager: observations
\* ------------------------------------------------------------------------
\* No call for remote identity u is suspended and React has processed every
\* state update.
Quiescent(u) == updateQueue = <<>> /\ \A t \in tasks : t.user # u

\* Session objects of remote identity u that have not been closed.
LiveSessions(u) == {p \in PeerIds : peers[p].user = u /\ ~IsClosed(p)}

Positions(seq, c) == {i \in 1..Len(seq) : seq[i] = c}

\* Every element of sub occurs exactly once in seq, in the order of sub.
InOrderOnce(sub, seq) ==
    /\ \A i \in 1..Len(sub) : Cardinality(Positions(seq, sub[i])) = 1
    /\ \A i, k \in 1..Len(sub) :
          i < k => \A a \in Positions(seq, sub[i]), b \in Positions(seq, sub[k]) : a < b

\* C2: once the remote description of the session of a remote identity is
\* set and the calls for that identity have completed, every candidate that
\* was placed in its pending queue has been applied to the session exactly
\* once, in arrival order, and the pending queue for the identity is empty.
C2_BufferedAppliedOnceInOrder ==
    \A u \in RemoteIds :
        (/\ Quiescent(u)
         /\ Existing(u)
         /\ peers[peerConnections[u]].remoteDescription
         /\ ~IsClosed(peerConnections[u]))
        => (/\ u \notin DOMAIN pendingIceCandidates
            /\ InOrderOnce(buffered[u], peers[peerConnections[u]].applied))

\* C4: at most one session object exists for a remote identity, whatever the
\* interleaving of CreateOffer and CreateAnswer calls for it.
C4_OneSessionPerIdentity ==
    \A u \in RemoteIds : Cardinality(LiveSessions(u)) <= 1

\* C9 (as stated): a session is restarted at most once; a transport that is
\* failed again after the attempt gets no further restart attempt.
C9_AtMostOneRestart ==
    \A p \in PeerIds : peers[p].restarts <= 1

\* C9 (amended): every transition of a session's transport state to failed
\* arms one recovery timer, and a timer that fires makes one restart attempt
\* exactly when the state is failed at that moment; restart attempts never
\* outnumber the transitions to failed, and a session that fails again after
\* an attempt is restarted again.
C9_OneAttemptPerFailure ==
    /\ [](\A p \in PeerIds :
            peers[p].restarts + peers[p].failTimers <= peers[p].failures)
    /\ [][ \A p \in PeerIds :
             /\ peers'[p].restarts # peers[p].restarts
                => (/\ peers[p].connectionState = "failed"
                    /\ peers'[p].restarts = peers[p].restarts + 1
                    /\ peers'[p].failTimers = peers[p].failTimers - 1)
             /\ (peers'[p].failTimers < peers[p].failTimers
                   /\ peers[p].connectionState = "failed")
                => peers'[p].restarts = peers[p].restarts + 1 ]_vars

\* C9 witness: a session failed, was restarted after the delay, failed again
\* and was restarted a second time.
C9_Witness ==
    \E p \in PeerIds :
        /\ peers[p].failures = 2
        /\ peers[p].restarts = 2
        /\ peers[p].failTimers = 0

\* C10: after removePeerConnection(remoteId) returns, no session, no remote
\* media stream and no pending candidate queue exists for remoteId, whether
\* or not a session existed beforehand, and a second call changes nothing.
C10_RemoveLeavesNothing ==
    /\ [](lastCall.op = "removePeerConnection"
            => (/\ lastCall.user \notin DOMAIN View.pc
                /\ lastCall.user \notin DOMAIN View.rs
                /\ lastCall.user \notin DOMAIN View.pic))
    /\ [][ (/\ lastCall.op = "removePeerConnection"
            /\ lastCall'.op = "removePeerConnection"
            /\ lastCall'.user = lastCall.user
            /\ calls' = calls + 1)
           => (View' = View /\ peers' = peers) ]_vars

\* A session of remote identity u was removed and none has been created
\* for u since.
Removed(u) ==
    /\ u \notin DOMAIN View.pc
    /\ \E p \in PeerIds : peers[p].user = u /\ IsClosed(p)

\* C11: a candidate for a remote identity that arrives after the session of
\* that identity was removed is dropped: it is neither applied to a session
\* nor added to a pending candidate queue.
C11_LateCandidateDropped ==
    [][ \A u \in RemoteIds :
          (/\ Removed(u)
           /\ lastCall'.op = "addIceCandidate"
           /\ lastCall'.user = u
           /\ nextCand' = nextCand + 1)
          => (/\ buffered'[u] = buffered[u]
              /\ View'.pic = View.pic
              /\ \A p \in PeerIds : peers'[p].applied = peers[p].applied) ]_vars

\* C12: the candidates of one remote identity are applied to a session in
\* the order they arrived: a candidate that arrived later is never applied
\* before one that arrived earlier and was still waiting.
C12_AppliedInArrivalOrder ==
    \A p \in PeerIds :
        \A i, k \in 1..Len(peers[p].applied) :
            i < k => peers[p].applied[i] <= peers[p].applied[k]

\* The candidate whose addIceCandidate call completes in this step, 0 if none.
CompletedCandidate ==
    IF lastCall'.op = "addIceCandidate" /\ nextCand' = nextCand + 1 /\ tasks' = tasks
    THEN nextCand
    ELSE IF lastCall'.op = "iceWaitDone" /\ tasks' # tasks
    THEN (CHOOSE t \in tasks \ tasks' : TRUE).cand
    ELSE 0

Last(seq) == seq[Len(seq)]

\* C13: addIceCandidate never discards a candidate: when the call completes
\* the candidate has been passed to addIceCandidate of a session of the
\* identity whose remote description is set, or it is the last element of
\* the pending queue of the identity, also when no session exists for it.
C13_CandidatePassedOrQueued ==
    [][ CompletedCandidate # 0 =>
          LET c == CompletedCandidate
              u == lastCall'.user
          IN  \/ \E p \in PeerIds :
                    /\ peers[p].user = u
                    /\ peers[p].remoteDescription
                    /\ peers'[p].offered = Append(peers[p].offered, c)
              \/ /\ u \in DOMAIN View'.pic
                 /\ View'.pic[u] # <<>>
                 /\ Last(View'.pic[u]) = c ]_vars

\* C13 witness: a candidate that arrived for an identity without session is
\* the last element of that identity's pending queue.
C13_Witness ==
    /\ lastCall.op = "addIceCandidate"
    /\ \A p \in PeerIds : peers[p].user # lastCall.user
    /\ lastCall.user \in DOMAIN View.pic
    /\ Last(View.pic[lastCall.user]) = nextCand - 1

\* ------------------------------------------------------------------------
\* Relay: routing and room scope
\* ------------------------------------------------------------------------
\* The room the registry records for connection t.
RoomOf(t) == MapGet(socketToRoomMapping, t)

\* Connection t is live and the registry records room as its room.
MemberOf(t, room) == status[t] = "connected" /\ RoomOf(t) = room

StateEvents == {"mute-state-changed", "video-state-changed"}

\* C14: a call-user, call-accepted or ice-candidate addressed to a
\* registered identity is delivered exactly once, to exactly the connection
\* registered for that identity and to no other, with its payload unchanged.
C14_DirectedDeliveredOnce ==
    (lastEvent.type \in ForwardEvents
       /\ lastEvent.target \in DOMAIN emailToSocketMapping)
    => /\ Len(ops) = 1
       /\ ops[1].op = "emit"
       /\ ops[1].to = {emailToSocketMapping[lastEvent.target]}
       /\ ops[1].data.body = lastEvent.body

\* C15: a directed forward is room-scoped: every connection it is delivered
\* to is a member of a room the sender is a member of.
C15_ForwardRoomScoped ==
    lastEvent.type \in ForwardEvents
    => \A i \in Deliveries : \A t \in ops[i].to :
          adapterRooms[t] \cap adapterRooms[lastEvent.socket] # {}

\* C16: join-room emits joined-room to the joining connection only and
\* user-joined, carrying the joiner's identity, to every other connection
\* that is a member of the room and to no other connection.
C16_JoinNotifiesRoomOnly ==
    lastEvent.type = "join-room"
    => LET joined == EmitIndexes("joined-room")
           notes == EmitIndexes("user-joined")
       IN  /\ Cardinality(joined) = 1
           /\ \A i \in joined : ops[i].to = {lastEvent.socket}
           /\ Cardinality(notes) = 1
           /\ \A i \in notes :
                 /\ ops[i].data.from = lastEvent.target
                 /\ ops[i].to = {t \in Sockets \ {lastEvent.socket} :
                                    MemberOf(t, lastEvent.body)}

\* C17: a mute-state-changed or video-state-changed message of a joined
\* connection is delivered to every other member of the sender's room, not
\* to the sender and not to a connection that is no member of that room.
C17_StateChangeToRoomOnly ==
    (lastEvent.type \in StateEvents
       /\ lastEvent.socket \in DOMAIN socketToRoomMapping)
    => /\ Len(ops) = 1
       /\ ops[1].ev = lastEvent.type
       /\ ops[1].to = {t \in Sockets \ {lastEvent.socket} :
                          MemberOf(t, RoomOf(lastEvent.socket))}

\* C18: at every point a connection is a member of at most one room.
C18_AtMostOneRoom ==
    \A s \in Sockets : Cardinality(adapterRooms[s]) <= 1

\* ------------------------------------------------------------------------
\* Telemetry store: claims
\* ------------------------------------------------------------------------
\* The step accepted a performance-metrics message and stored its sample.
SampleAccepted == lastEvent'.type = "performance-metrics" /\ inserted' = inserted + 1

\* C19: calculateRoomMetrics on a room whose buffer holds no sample newer
\* than the 30-second recency window leaves the aggregate store as it was,
\* an absent aggregate included, and emits no room-metrics-update.
C19_NoRecentSampleKeepsAggregate ==
    [][ SampleAccepted =>
          LET r == RoomOf(lastEvent'.socket)
              buf == performanceMetrics'[r]
          IN  (\A i \in 1..Len(buf) : buf[i].timestamp <= now - RecencyWindow)
              => (/\ roomMetrics' = roomMetrics
                  /\ ops' = <<>>) ]_vars

\* C19 witness: a room with a stored aggregate received a sample when none
\* of its samples was recent any more, and the recomputation did nothing.
C19_Witness ==
    /\ lastEvent.type = "performance-metrics"
    /\ Truthy(MapGet(socketToEmailMapping, lastEvent.socket))
    /\ LET r == RoomOf(lastEvent.socket)
       IN  /\ r \in DOMAIN performanceMetrics
           /\ r \in DOMAIN roomMetrics
           /\ NewerThan(performanceMetrics[r], now - RecencyWindow) = {}
           /\ Len(performanceMetrics[r]) >= 2
           /\ ops = <<>>

\* C20: a room's sample buffer never holds more than the cap of 1000
\* samples, and after every insertion it holds the most recently inserted
\* samples, at most the cap, in insertion order.
C20_BufferKeepsNewestUpToCap ==
    /\ [](\A r \in DOMAIN performanceMetrics : Len(performanceMetrics[r]) <= Cap)
    /\ [][ SampleAccepted =>
             LET r == RoomOf(lastEvent'.socket)
                 old == MapGetOr(performanceMetrics, r, <<>>)
                 new == performanceMetrics'[r]
                 k == Len(new)
             IN  /\ k = (IF Len(old) + 1 < Cap THEN Len(old) + 1 ELSE Cap)
                 /\ new[k].seq = inserted + 1
                 /\ \A i \in 1..(k - 1) : new[i] = old[Len(old) - (k - 1) + i] ]_vars

\* C20 witness: the insertion after the cap was reached dropped the oldest
\* sample and kept the cap most recent ones.
C20_Witness ==
    /\ inserted = Cap + 1
    /\ "r1" \in DOMAIN performanceMetrics
    /\ Len(performanceMetrics["r1"]) = Cap
    /\ performanceMetrics["r1"][1].seq = 2
    /\ performanceMetrics["r1"][Cap].seq = Cap + 1

\* The last step was a performance-metrics message whose recomputation stored
\* and broadcast an aggregate.
Computed == lastEvent.type = "performance-metrics" /\ ops # <<>>

\* The positions of the recent samples of room r.
RecentOf(r) == NewerThan(performanceMetrics[r], now - RecencyWindow)

\* The first of the positions idx of buf whose quality is q.
FirstPosition(buf, idx, which, q) ==
    CHOOSE i \in idx :
        /\ QualityAt(buf, which, i) = q
        /\ \A k \in idx : QualityAt(buf, which, k) = q => i <= k

\* Both dominant qualities of the stored aggregate of the room of the last
\* message have the highest count among the recent samples and, among the
\* qualities with that count, the earliest first occurrence.
DominantIsFirstSeenMaximum ==
        LET r == RoomOf(lastEvent.socket)
            buf == performanceMetrics[r]
            idx == RecentOf(r)
            agg == roomMetrics[r]
        IN  \A which \in {"video", "audio"} :
               LET dom == IF which = "video" THEN agg.dominantVideoQuality
                          ELSE agg.dominantAudioQuality
                   keys == {QualityAt(buf, which, i) : i \in idx}
                   Count(q) == Cardinality({i \in idx : QualityAt(buf, which, i) = q})
               IN  /\ dom \in keys
                   /\ \A q \in keys :
                         /\ Count(q) <= Count(dom)
                         /\ Count(q) = Count(dom)
                            => FirstPosition(buf, idx, which, dom)
                                 <= FirstPosition(buf, idx, which, q)

\* C21: the dominant video quality, and likewise the dominant audio quality,
\* of an aggregate is a quality with the highest count among the recent
\* samples, and among several qualities with that count the one seen first.
C21_DominantIsFirstSeenMaximum ==
    [][ (inserted' = inserted + 1 /\ Computed') => DominantIsFirstSeenMaximum' ]_vars

\* The samples of buffer buf whose timestamp is newer than limit.
Fresh(buf, limit) == {buf[i] : i \in NewerThan(buf, limit)}

Entries(buf) == {buf[i] : i \in 1..Len(buf)}

\* The entries of buf are in the order they were accepted.
InInsertionOrder(buf) == \A i, k \in 1..Len(buf) : i < k => buf[i].seq < buf[k].seq

\* C22: after a sweep every remaining room's buffer holds exactly its
\* pre-sweep samples newer than the 5-minute staleness window, in the same
\* order, and every room that had no such sample is absent from the sample
\* store and from the aggregate store.
C22_SweepKeepsExactlyFresh ==
    [][ (lastEvent'.type = "sweep" /\ ticks' = ticks) =>
          /\ DOMAIN performanceMetrics' \subseteq DOMAIN performanceMetrics
          /\ \A r \in DOMAIN performanceMetrics :
                LET fresh == Fresh(performanceMetrics[r], now - StalenessWindow)
                IN  IF fresh = {}
                    THEN /\ r \notin DOMAIN performanceMetrics'
                         /\ r \notin DOMAIN roomMetrics'
                    ELSE /\ r \in DOMAIN performanceMetrics'
                         /\ Entries(performanceMetrics'[r]) = fresh
                         /\ Len(performanceMetrics'[r]) = Cardinality(fresh)
                         /\ InInsertionOrder(performanceMetrics'[r])
                         /\ MapGet(roomMetrics', r) = MapGet(roomMetrics, r) ]_vars

\* C22 witness: two samples were accepted and a sweep after a clock step
\* dropped the stale one and kept the fresh one.
C22_Witness ==
    /\ lastEvent.type = "sweep"
    /\ inserted = 2
    /\ Cardinality(DOMAIN performanceMetrics) = 1
    /\ \E r \in DOMAIN performanceMetrics : Len(performanceMetrics[r]) = 1
    /\ ticks = 1

\* C23: whatever the interleaving of sweeps and performance-metrics
\* messages, a sweep removes no sample newer than the staleness window, an
\* accepted sample is the newest entry of its room's buffer also when a sweep
\* has just removed the room, and a room is never half-deleted: an aggregate
\* exists only for a room that has a non-empty buffer.
C23_SweepAndArrivalKeepRoomsWhole ==
    /\ [](/\ DOMAIN roomMetrics \subseteq DOMAIN performanceMetrics
          /\ \A r \in DOMAIN performanceMetrics : performanceMetrics[r] # <<>>)
    /\ [][ /\ lastEvent'.type = "sweep"
              => \A r \in DOMAIN performanceMetrics :
                    \A m \in Fresh(performanceMetrics[r], now - StalenessWindow) :
                       /\ r \in DOMAIN performanceMetrics'
                       /\ m \in Entries(performanceMetrics'[r])
           /\ SampleAccepted
              => LET r == RoomOf(lastEvent'.socket)
                 IN  /\ r \in DOMAIN performanceMetrics'
                     /\ Last(performanceMetrics'[r]).seq = inserted + 1
                     /\ r \in DOMAIN performanceMetrics
                        => \A i \in 1..(Len(performanceMetrics'[r]) - 1) :
                              performanceMetrics'[r][i] \in Entries(performanceMetrics[r]) ]_vars

\* C23 witness: a sample arrived for a room that a sweep had removed, and
\* the room exists again with that sample alone.
C23_Witness ==
    /\ lastEvent.type = "performance-metrics"
    /\ inserted = 2
    /\ LET r == RoomOf(lastEvent.socket)
       IN  /\ r \in DOMAIN performanceMetrics
           /\ Len(performanceMetrics[r]) = 1
           /\ performanceMetrics[r][1].seq = 2
           /\ DOMAIN performanceMetrics = {r}

\* The stored aggregate of the room of the last message is the one of the
\* room's recent samples at the current time, and one room-metrics-update
\* carries it to every connection of the room.
AggregateIsOfRecent ==
        LET r == RoomOf(lastEvent.socket)
            buf == performanceMetrics[r]
            idx == RecentOf(r)
            agg == roomMetrics[r]
            n == Cardinality(idx)
            sum == SumOver([i \in idx |-> buf[i].averageLatency], idx)
            updates == EmitIndexes("room-metrics-update")
        IN  /\ idx # {}
            /\ agg.roomId = r
            /\ agg.sampleCount = n
            /\ agg.totalUsers = Cardinality({buf[i].userId : i \in idx})
            /\ 2 * n * agg.averageLatency - 2 * sum <= n
            /\ 2 * sum - 2 * n * agg.averageLatency < n
            /\ \A which \in {"video", "audio"} :
                  LET dist == IF which = "video" THEN agg.videoQualityDistribution
                              ELSE agg.audioQualityDistribution
                  IN  /\ DOMAIN dist = {QualityAt(buf, which, i) : i \in idx}
                      /\ \A q \in DOMAIN dist :
                            dist[q] = Cardinality({i \in idx : QualityAt(buf, which, i) = q})
            /\ agg.lastUpdated = now
            /\ Cardinality(updates) = 1
            /\ \A u \in updates :
                  /\ ops[u].data.body = agg
                  /\ \A t \in Sockets : MemberOf(t, r) => t \in ops[u].to

\* C24: a recomputation that finds a recent sample stores an aggregate that
\* is determined by the current recent samples of the room alone and
\* broadcasts room-metrics-update with that aggregate to every connection of
\* the room.
C24_AggregateFromRecentOnly ==
    [][ (inserted' = inserted + 1 /\ Computed') => AggregateIsOfRecent' ]_vars

\* C24 witness: an aggregate was stored in place of an earlier one while the
\* buffer also held a sample that was no longer recent, and two connections
\* of the room received it.
C24_Witness ==
    /\ Computed
    /\ LET r == RoomOf(lastEvent.socket)
       IN  /\ Len(performanceMetrics[r]) = 2
           /\ Cardinality(RecentOf(r)) = 1
           /\ roomMetrics[r].sampleCount = 1
           /\ \E u \in EmitIndexes("room-metrics-update") : Cardinality(ops[u].to) = 2


\* ------------------------------------------------------------------------
\* Draining the pending queue (Peer.tsx createAnswer, setRemoteAns)
\* ------------------------------------------------------------------------
\* a occurs in b as a subsequence
RECURSIVE IsSubseq(_, _)
IsSubseq(a, b) ==
    IF a = <<>> THEN TRUE
    ELSE IF b = <<>> THEN FALSE
    ELSE IF Head(a) = Head(b) THEN IsSubseq(Tail(a), Tail(b))
    ELSE IsSubseq(a, Tail(b))

\* The queued candidates a draining call has passed to its session so far
Attempted(t) == SubSeq(t.snap, 1, t.idx - 1)

\* What holds while a call drains and when it has drained: the remote
\* description of a live session is set, and the candidates attempted so
\* far were passed to the session in queue order.
DrainState(t) ==
    /\ t.pc = "drain" =>
          /\ IsSubseq(Attempted(t), peers[t.peer].offered)
          /\ ~IsClosed(t.peer) => peers[t.peer].remoteDescription
    /\ t.pc = "answer" =>
          /\ IsSubseq(t.snap, peers[t.peer].offered)
          /\ ~IsClosed(t.peer) => peers[t.peer].remoteDescription

\* What the step of call t does, whether or not the session takes the
\* candidate of the step.
DrainStep(t) ==
    /\ (t.pc = "setRemote" /\ t.snap # <<>> /\ ~IsClosed(t.peer)) =>
          /\ peers'[t.peer].remoteDescription
          /\ peers'[t.peer].offered = Append(peers[t.peer].offered, t.snap[1])
          /\ [t EXCEPT !.pc = "drain", !.idx = 2] \in tasks'
    /\ (t.pc = "drain" /\ t.idx <= Len(t.snap)) =>
          /\ peers'[t.peer].offered = Append(peers[t.peer].offered, t.snap[t.idx])
          /\ [t EXCEPT !.idx = t.idx + 1] \in tasks'
    /\ (t.pc = "drain" /\ t.idx > Len(t.snap)) =>
          /\ updateQueue' = Append(updateQueue, Update("pic", "del", t.user, 0))
          /\ t.kind = "answer" => [t EXCEPT !.pc = "answer"] \in tasks'
    /\ (t.pc = "answer" /\ ~IsClosed(t.peer)) =>
          peers'[t.peer].localDescription

\* C25: a queued candidate the session rejects does not end the drain of
\* createAnswer or setRemoteAns: on a session that is not closed the remote
\* description is set before the first queued candidate is passed, every
\* queued candidate is passed in queue order whatever happened to the ones
\* before it, the queue is cleared after the last one, and createAnswer then
\* sets the local answer.
C25_DrainSurvivesRejection ==
    /\ [](\A t \in tasks : DrainState(t))
    /\ [][ \A t \in tasks \ tasks' : DrainStep(t) ]_vars

\* C25 witness: createAnswer drained the queue <<1, 2>>, the session
\* rejected candidate 1 and took candidate 2, and the local answer is set.
C25_Witness ==
    /\ lastCall.op = "answerCreated"
    /\ \E p \in PeerIds :
          /\ ~IsClosed(p)
          /\ peers[p].user = lastCall.user
          /\ buffered[peers[p].user] = <<1, 2>>
          /\ 1 \in malformed
          /\ peers[p].offered = <<1, 2>>
          /\ peers[p].applied = <<2>>
          /\ peers[p].localDescription


\* ------------------------------------------------------------------------
\* setRemoteAns without a session (Peer.tsx setRemoteAns)
\* ------------------------------------------------------------------------
\* C26: setRemoteAns for a remote identity that has no session (none was
\* created, or the one created has been removed) is a no-op: the call
\* returns at once without awaiting anything that can reject, no session
\* object is created or changed, and the React state, the pending candidate
\* queue included, stays as it is.
C26_SetRemoteAnsWithoutSessionIsNoOp ==
    [][ \A u \in RemoteIds :
          (/\ LiveSessions(u) = {}
           /\ lastCall'.op = "setRemoteAns"
           /\ lastCall'.user = u
           /\ calls' = calls + 1)
          => (/\ tasks' = tasks
              /\ peers' = peers
              /\ updateQueue' = updateQueue
              /\ View' = View) ]_vars


\* ------------------------------------------------------------------------
\* Aggregate query (part_000 get-room-metrics)
\* ------------------------------------------------------------------------
\* C27: get-room-metrics from a connection that has joined a room produces
\* exactly one room-metrics reply, sent to the requester only and carrying
\* the stored aggregate of the room or null when there is none, and changes
\* neither the registry nor the telemetry store.
C27_QueryRepliesOnceToRequester ==
    [][ \A s \in Sockets :
          (/\ lastEvent'.type = "get-room-metrics"
           /\ lastEvent'.socket = s
           /\ ticks' = ticks
           /\ status[s] = "connected"
           /\ joinCount[s] > 0)
          => (/\ ops' = << EmitOp("room-metrics", {s}, Undefined,
                                  MapGetOr(roomMetrics, RoomOf(s), "null")) >>
              /\ registry' = registry
              /\ UNCHANGED metricVars) ]_vars


\* ------------------------------------------------------------------------
\* Raw-sample query (part_000 GET /api/performance-data/:roomId)
\* ------------------------------------------------------------------------
\* The positions of buffer buf the query q asks for: at or after startTime,
\* at or before endTime, and of user userId, for each of these that is given.
Selected(buf, q) ==
    {i \in 1..Len(buf) :
        /\ Given(q.startTime) => buf[i].timestamp >= q.startTime.ms
        /\ Given(q.endTime) => buf[i].timestamp <= q.endTime.ms
        /\ q.userId # Undefined => buf[i].userId = q.userId}

\* The time parameters of q that are given are timestamps.
WellFormed(q) ==
    /\ Given(q.startTime) => q.startTime.form = "iso"
    /\ Given(q.endTime) => q.endTime.form = "iso"

\* C28: the raw-sample query of a room answers with exactly the buffered
\* samples that are at or after startTime, at or before endTime and of the
\* given user, for each of the three that is given, in buffer order, and
\* with metricsCount their number; a room without buffer gives an empty list.
C28_QueryReturnsExactlyTheSelected ==
    (lastEvent.type = "performance-data" /\ WellFormed(lastEvent.body)) =>
        LET q == lastEvent.body
            buf == MapGetOr(performanceMetrics, q.roomId, <<>>)
            response == ops[1].data.body
        IN  /\ Len(ops) = 1
            /\ response.roomId = q.roomId
            /\ Entries(response.metrics) = {buf[i] : i \in Selected(buf, q)}
            /\ InInsertionOrder(response.metrics)
            /\ response.metricsCount = Cardinality(Selected(buf, q))
            /\ response.metricsCount = Len(response.metrics)
            /\ q.roomId \notin DOMAIN performanceMetrics => response.metrics = <<>>

\* C28 witness: a query with all three filters given returned one of the
\* two buffered samples, the one stamped exactly startTime.
C28_Witness ==
    /\ lastEvent.type = "performance-data"
    /\ LET q == lastEvent.body
       IN  /\ q.startTime.form = "iso" /\ q.endTime.form = "iso"
           /\ q.userId # Undefined
           /\ q.roomId \in DOMAIN performanceMetrics
           /\ Len(performanceMetrics[q.roomId]) = 2
           /\ ops[1].data.body.metricsCount = 1
           /\ ops[1].data.body.metrics[1].timestamp = q.startTime.ms


\* ------------------------------------------------------------------------
\* Quality scores (PerformanceMonitor.tsx calculateVideoQuality,
\* calculateAudioQuality)
\* ------------------------------------------------------------------------
\* excellent > good > fair > poor
Rank(quality) ==
    CASE quality = "excellent" -> 3
      [] quality = "good" -> 2
      [] quality = "fair" -> 1
      [] quality = "poor" -> 0

\* new is old with the packet-loss rate of one connection lowered or kept
\* and every other input as it was.
LowerLoss(old, new) ==
    /\ Len(new) = Len(old)
    /\ \E i \in 1..Len(old) :
          /\ \A k \in 1..Len(old) : k # i => new[k] = old[k]
          /\ new[i].roundTripTime = old[i].roundTripTime
          /\ new[i].framesPerSecond = old[i].framesPerSecond
          /\ new[i].jitter = old[i].jitter
          /\ PacketLossRate(new[i]).num * PacketLossRate(old[i]).den
                <= PacketLossRate(old[i]).num * PacketLossRate(new[i]).den

\* C29: for the video scorer and for the audio scorer, a collection whose
\* statistics differ from the previous ones only by a lower packet-loss rate
\* of one connection never gives a worse quality category.
C29_LowerLossNeverWorse ==
    [][ LowerLoss(connectionStats, connectionStats')
          => (/\ Rank(videoQuality') >= Rank(videoQuality)
              /\ Rank(audioQuality') >= Rank(audioQuality)) ]_vars

\* C29 witness: a connection without packet loss, where 5 % loss with every
\* other input the same gives a worse video and a worse audio category.
C29_Witness ==
    \E i \in 1..Len(connectionStats) :
        LET lossy == [connectionStats EXCEPT ![i].packetsReceived = 95,
                                             ![i].packetsLost = 5]
        IN  /\ connectionStats[i].packetsReceived = 100
            /\ connectionStats[i].packetsLost = 0
            /\ videoQuality = CalculateVideoQuality(connectionStats)
            /\ audioQuality = CalculateAudioQuality(connectionStats)
            /\ Rank(CalculateVideoQuality(lossy)) < Rank(videoQuality)
            /\ Rank(CalculateAudioQuality(lossy)) < Rank(audioQuality)

\* quality is the band lo..hi (hi excluded, 100 included in the top band)
\* of the average of total over the connections, for the limits given
\* best band first.
InBand(quality, total, limits) ==
    LET n == Len(connectionStats)
        From(k) == AverageAtLeast(total, n, k)
    IN  /\ From(0)
        /\ n > 0 => total.num <= 100 * n * total.den
        /\ quality = "excellent" <=> From(limits[1])
        /\ quality = "good" <=> (From(limits[2]) /\ ~From(limits[1]))
        /\ quality = "fair" <=> (From(limits[3]) /\ ~From(limits[2]))
        /\ quality = "poor" <=> ~From(limits[3])

\* C30: once a collection has run (until then the qualities are the initial
\* ones) the video quality is excellent for an average score of 80 to 100,
\* good from 60, fair from 40 and poor below 40, the audio quality is
\* excellent for 85 to 100, good from 70, fair from 50 and poor below 50,
\* and the average lies in exactly one of the bands.
C30_CategoryIsDocumentedBand ==
    ~MonitorInit =>
        /\ InBand(videoQuality, TotalScore(connectionStats, "video"), <<80, 60, 40>>)
        /\ InBand(audioQuality, TotalScore(connectionStats, "audio"), <<85, 70, 50>>)

\* C30 witness: two connections whose average video score is exactly 80,
\* the lower limit of the best band, and whose audio is not excellent.
C30_Witness ==
    LET total == TotalScore(connectionStats, "video")
    IN  /\ Len(connectionStats) = 2
        /\ total.num = 80 * 2 * total.den
        /\ connectionStats[1] # connectionStats[2]
        /\ videoQuality = "excellent"
        /\ audioQuality # "excellent"

\* ------------------------------------------------------------------------
\* Relay: registrations of other connections across a leave
\* ------------------------------------------------------------------------
\* The user -> connection entries that belong to a connection other than c.
OwnedByOthers(c) ==
    {e \in DOMAIN emailToSocketMapping : emailToSocketMapping[e] # c}

\* C31: the cleanup of a leaving connection removes only that connection's
\* own entries: every identity registered to another connection before the
\* leave is still registered to that connection after it.
C31_CleanupRemovesOnlyOwnEntries ==
    [][ lastEvent'.type \in LeaveEvents
        => \A e \in OwnedByOthers(lastEvent'.socket) :
              MapGet(emailToSocketMapping', e) = emailToSocketMapping[e] ]_vars

\* C32: once the session of a remote identity was removed, the remote
\* stream entry of that identity stays absent as long as no new session
\* exists for it: a debounce timer armed by a track event before the
\* removal does not put the stream back.
C32_RemovedStreamStaysAbsent ==
    [][ \A u \in RemoteIds :
          (Removed(u) /\ u \notin DOMAIN View.rs /\ Removed(u)')
             => u \notin DOMAIN View'.rs ]_vars

\* ------------------------------------------------------------------------
\* Relay: room broadcasts after an explicit leave
\* ------------------------------------------------------------------------
\* Connection c joined a room, processed the cleanup of user-disconnect and
\* has not joined again: it is connected and has no connection -> room entry.
LeftExplicitly(c) ==
    /\ status[c] = "connected"
    /\ cleanupRuns[c].explicit > 0
    /\ c \notin DOMAIN socketToRoomMapping

RoomEvents == {"user-joined", "user-left", "mute-state-changed",
               "video-state-changed", "room-metrics-update"}

\* C33: a connection that has left its room explicitly and has not joined
\* again receives no room-scoped broadcast.
C33_NoRoomBroadcastAfterLeave ==
    [][ \A c \in Sockets :
          (LeftExplicitly(c) /\ LeftExplicitly(c)')
             => \A i \in 1..Len(ops') :
                   (ops'[i].op = "emit" /\ ops'[i].ev \in RoomEvents)
                      => c \notin ops'[i].to ]_vars

\* ------------------------------------------------------------------------
\* Relay: origin of relayed messages
\* ------------------------------------------------------------------------
RelayedEvents == {"incomming-call", "call-accepted", "ice-candidate",
                  "mute-state-changed", "video-state-changed"}

\* C34: every relayed message that reaches a connection names as origin the
\* identity registered for the sending connection, and that origin is never
\* undefined.
C34_OriginIsRegisteredIdentity ==
    \A i \in Deliveries :
        ops[i].ev \in RelayedEvents
           => /\ ops[i].data.from # Undefined
              /\ ops[i].data.from = MapGet(socketToEmailMapping, lastEvent.socket)

\* ------------------------------------------------------------------------
\* Telemetry: provenance of stored samples
\* ------------------------------------------------------------------------
\* The sample the last performance-metrics message stored.
StoredSample ==
    LET buf == performanceMetrics[MapGet(socketToRoomMapping, lastEvent.socket)]
    IN  buf[Len(buf)]

\* The stored sample carries the sender's registered identity and the
\* timestamp of the message.
StampedByRelay ==
    /\ StoredSample.userId = MapGet(socketToEmailMapping, lastEvent.socket)
    /\ StoredSample.timestamp = lastEvent.body

\* C35: every sample the relay stores has the registered identity of the
\* sending connection as userId and the top-level timestamp of the message
\* as timestamp, whatever the metrics payload contains.
C35_SampleStampedByRelay ==
    [][ inserted' = inserted + 1 => StampedByRelay' ]_vars

\* ------------------------------------------------------------------------
\* Telemetry: the two stores
\* ------------------------------------------------------------------------
\* C36: in every reachable state each room with a stored aggregate has a
\* sample buffer.
C36_AggregateKeysWithinSampleKeys ==
    DOMAIN roomMetrics \subseteq DOMAIN performanceMetrics

\* C36 witness: two rooms were in use; a sweep has just removed one of them
\* from both stores and kept the other, whose aggregate is still stored.
C36_Witness ==
    /\ lastEvent.type = "sweep"
    /\ inserted = 2
    /\ \E r \in MetricRooms :
          /\ DOMAIN performanceMetrics = {r}
          /\ DOMAIN roomMetrics = {r}
          /\ Len(performanceMetrics[r]) = 1
          /\ performanceMetrics[r][1].seq = 2
          /\ \E s \in MetricSockets :
                MapGet(socketToRoomMapping, s) \in MetricRooms \ {r}

\* ------------------------------------------------------------------------
\* Telemetry: consistency of an aggregate
\* ------------------------------------------------------------------------
\* The counts of a histogram, added up.
HistogramTotal(h) == SumOver(h, DOMAIN h)

Consistent(agg) ==
    /\ HistogramTotal(agg.videoQualityDistribution) = agg.sampleCount
    /\ HistogramTotal(agg.audioQualityDistribution) = agg.sampleCount
    /\ 1 <= agg.totalUsers
    /\ agg.totalUsers <= agg.sampleCount

\* C37: every stored aggregate and every broadcast aggregate is internally
\* consistent: each histogram's counts sum to sampleCount and totalUsers lies
\* between 1 and sampleCount.
C37_AggregateIsConsistent ==
    /\ \A r \in DOMAIN roomMetrics : Consistent(roomMetrics[r])
    /\ \A i \in EmitIndexes("room-metrics-update") : Consistent(ops[i].data.body)

\* ------------------------------------------------------------------------
\* Peer session manager: recovery timer of a removed session
\* ------------------------------------------------------------------------
\* C38: a session that was closed by removePeerConnection is never
\* restarted: a recovery timer that fires after the removal makes no
\* restart attempt.
C38_NoRestartAfterRemoval ==
    [][ \A p \in PeerIds : IsClosed(p) => peers'[p].restarts = peers[p].restarts ]_vars

\* C38 witness: a session failed, was removed while its recovery timer was
\* pending, and the timer has fired without a restart attempt.
C38_Witness ==
    /\ lastCall.op = "failTimer"
    /\ \E p \in PeerIds :
          /\ peers[p].user = lastCall.user
          /\ IsClosed(p)
          /\ peers[p].failures = 1
          /\ peers[p].failTimers = 0
          /\ peers[p].restarts = 0

\* ------------------------------------------------------------------------
\* Call setup: both sessions are eventually negotiated
\* ------------------------------------------------------------------------
\* The arrival of b is about to be announced to a, whose room page has its
\* listeners registered.
Announced ==
    /\ page["a"] = "room"
    /\ wire["a"] # <<>>
    /\ Head(wire["a"]).ev = "user-joined"
    /\ Head(wire["a"]).data.from = "b"

\* Client c holds a session for the other participant with both
\* descriptions set.
Negotiated(c) ==
    /\ session[c].created
    /\ session[c].visible
    /\ session[c].peer \in Clients \ {c}
    /\ session[c].localDescription
    /\ session[c].remoteDescription

\* C39: when b joins the room in which a is present and nobody leaves, then
\* with fair delivery both participants eventually hold a session for each
\* other with local and remote description set.
C39_CallIsEventuallyNegotiated ==
    Announced ~> (Negotiated("a") /\ Negotiated("b"))

====
